---- MODULE Spec2Model ----
(***************************************************************************)
(* Model of the sequencer effects of source/blender/sequencer/intern/      *)
(* effects.cc: the per-pixel arithmetic of the compositing effects, their  *)
(* early-out classification, the row-sliced execution of an effect, the    *)
(* two-pass blurs, the speed effect's frame queries, and the lifecycle of  *)
(* a strip's effect data (init, load, copy, free) behind the handle API.   *)
(*                                                                         *)
(* C floats are modelled by exact rationals <<n, d>> (d > 0, lowest        *)
(* terms).  The inputs are chosen so that every intermediate value is      *)
(* exactly representable in binary32 or is only compared against a         *)
(* threshold it is far from, so the rational result is the float result.   *)
(* A pixel is a 4-tuple <<r, g, b, a>> (index 1..4 for the C index 0..3).  *)
(***************************************************************************)
EXTENDS Integers, Sequences, FiniteSets, TLC

VARIABLES call, result,
          inv, ibuf1, ibuf2, out, task, writes,
          seq, mem, fonts, thread, ret, log

vars == <<call, result, inv, ibuf1, ibuf2, out, task, writes,
          seq, mem, fonts, thread, ret, log>>

pixelVars == <<call, result>>
execVars == <<inv, ibuf1, ibuf2, out, task, writes>>
stripVars == <<seq, mem, fonts, thread, ret, log>>

(***************************************************************************)
(* Float arithmetic.                                                       *)
(***************************************************************************)
Abs(n) == IF n < 0 THEN -n ELSE n

RECURSIVE GCD(_, _)
GCD(a, b) == IF b = 0 THEN a ELSE GCD(b, a % b)

Rat(n, d) ==
  LET g == GCD(Abs(n), Abs(d))
      s == IF d < 0 THEN -1 ELSE 1
  IN  <<(s * n) \div g, Abs(d) \div g>>

F(n) == <<n, 1>>
Zero == F(0)
One == F(1)
Half == Rat(1, 2)

RAdd(p, q) ==
  LET g == GCD(p[2], q[2])
  IN  Rat(p[1] * (q[2] \div g) + q[1] * (p[2] \div g), (p[2] \div g) * q[2])
RNeg(p) == <<-p[1], p[2]>>
RSub(p, q) == RAdd(p, RNeg(q))
RMul(p, q) ==
  LET g1 == GCD(Abs(p[1]), q[2])
      g2 == GCD(Abs(q[1]), p[2])
  IN  Rat((p[1] \div g1) * (q[1] \div g2), (p[2] \div g2) * (q[2] \div g1))
RInv(p) == IF p[1] < 0 THEN <<-p[2], -p[1]>> ELSE <<p[2], p[1]>>
RDiv(p, q) == RMul(p, RInv(q))
RLt(p, q) == p[1] * q[2] < q[1] * p[2]
RLe(p, q) == p[1] * q[2] <= q[1] * p[2]
RAbs(p) == <<Abs(p[1]), p[2]>>
RMin(p, q) == IF RLt(p, q) THEN p ELSE q
RMax(p, q) == IF RLt(p, q) THEN q ELSE p

\* C conversion float -> int: truncation toward zero.
FloatToInt(p) == IF p[1] >= 0 THEN p[1] \div p[2] ELSE -((-p[1]) \div p[2])

\* Store of an int into an uchar: the low 8 bits.
Uchar(v) == v % 256

\* v >> k on a (possibly negative) int: arithmetic shift.
Shr(v, k) == v \div (2 ^ k)

min_ii(a, b) == IF a < b THEN a ELSE b
max_ii(a, b) == IF a > b THEN a ELSE b

\* Conversion float -> uchar.  Out of the range of uchar after truncation the
\* conversion is undefined: a build either keeps the low 8 bits or saturates.
FloatToUcharOutcomes(p) ==
  LET t == FloatToInt(p)
  IN  IF t >= 0 /\ t <= 255 THEN {t}
      ELSE {Uchar(t), IF t < 0 THEN 0 ELSE 255}

IsSquare(n) == \E k \in 0..n : k * k = n
ISqrt(n) == CHOOSE k \in 0..n : k * k = n
HasSqrt(p) == IsSquare(Abs(p[1])) /\ IsSquare(p[2])

\* sqrtf_signed(c): sqrt of |c| with the sign of c.
sqrtf_signed(p) ==
  LET r == <<ISqrt(Abs(p[1])), ISqrt(p[2])>>
  IN  IF p[1] < 0 THEN RNeg(r) ELSE r

(***************************************************************************)
(* Straight <-> premultiplied conversions of byte pixels.                  *)
(***************************************************************************)
unit_float_to_uchar_clamp(v) ==
  IF RLe(v, Zero) THEN 0
  ELSE IF RLt(Rat(509, 510), v) THEN 255
  ELSE FloatToInt(RAdd(RMul(F(255), v), Half))

straight_uchar_to_premul_float(color) ==
  LET alpha == Rat(color[4], 255)
      fac == RMul(alpha, Rat(1, 255))
  IN  <<RMul(F(color[1]), fac), RMul(F(color[2]), fac), RMul(F(color[3]), fac), alpha>>

premul_float_to_straight_uchar(color) ==
  IF color[4] = Zero \/ color[4] = One
  THEN [i \in 1..4 |-> unit_float_to_uchar_clamp(color[i])]
  ELSE [i \in 1..4 |->
          IF i = 4 THEN unit_float_to_uchar_clamp(color[4])
          ELSE unit_float_to_uchar_clamp(RDiv(color[i], color[4]))]

(***************************************************************************)
(* Cross.                                                                  *)
(***************************************************************************)
\* Variants of do_cross_effect_byte that the cross properties must tell
\* from it: rounding to nearest, weights summing to 255, weights swapped.
do_cross_effect_byte_rounded(fac, rt1, rt2) ==
  LET temp_fac == FloatToInt(RMul(F(256), fac))
      temp_mfac == 256 - temp_fac
  IN  [i \in 1..4 |-> Uchar(Shr(temp_mfac * rt1[i] + temp_fac * rt2[i] + 128, 8))]

do_cross_effect_byte_255(fac, rt1, rt2) ==
  LET temp_fac == FloatToInt(RMul(F(256), fac))
      temp_mfac == 255 - temp_fac
  IN  [i \in 1..4 |-> Uchar(Shr(temp_mfac * rt1[i] + temp_fac * rt2[i], 8))]

do_cross_effect_byte_swapped(fac, rt1, rt2) ==
  LET temp_fac == FloatToInt(RMul(F(256), fac))
      temp_mfac == 256 - temp_fac
  IN  [i \in 1..4 |-> Uchar(Shr(temp_mfac * rt2[i] + temp_fac * rt1[i], 8))]

\* The int values do_cross_effect_byte computes, before they are stored.
do_cross_effect_byte_int(fac, rt1, rt2) ==
  LET temp_fac == FloatToInt(RMul(F(256), fac))
      temp_mfac == 256 - temp_fac
  IN  [i \in 1..4 |-> Shr(temp_mfac * rt1[i] + temp_fac * rt2[i], 8)]

do_cross_effect_byte(fac, rt1, rt2) ==
  [i \in 1..4 |-> Uchar(do_cross_effect_byte_int(fac, rt1, rt2)[i])]

do_cross_effect_float(fac, rt1, rt2) ==
  LET mfac == RSub(One, fac)
  IN  [i \in 1..4 |-> RAdd(RMul(mfac, rt1[i]), RMul(fac, rt2[i]))]

(***************************************************************************)
(* Gamma cross.                                                            *)
(***************************************************************************)
gammaCorrect(c) == IF RLt(c, Zero) THEN RNeg(RMul(c, c)) ELSE RMul(c, c)

invGammaCorrect(c) == sqrtf_signed(c)

do_gammacross_effect_float(fac, rt1, rt2) ==
  LET mfac == RSub(One, fac)
  IN  [i \in 1..4 |->
        gammaCorrect(RAdd(RMul(mfac, invGammaCorrect(rt1[i])),
                          RMul(fac, invGammaCorrect(rt2[i]))))]

do_gammacross_effect_byte(fac, cp1, cp2) ==
  premul_float_to_straight_uchar(
    do_gammacross_effect_float(fac, straight_uchar_to_premul_float(cp1),
                               straight_uchar_to_premul_float(cp2)))

(***************************************************************************)
(* Alpha over.                                                             *)
(***************************************************************************)
do_alphaover_effect_float(fac, rt1, rt2) ==
  LET mfac == RSub(One, RMul(fac, rt1[4]))
  IN  IF RLe(fac, Zero) THEN rt2
      ELSE IF RLe(mfac, Zero) THEN rt1
      ELSE [i \in 1..4 |-> RAdd(RMul(fac, rt1[i]), RMul(mfac, rt2[i]))]

\* Variant of do_alphaover_effect_byte that copies the other input in
\* its two verbatim branches.
do_alphaover_effect_byte_other(fac, cp1, cp2) ==
  LET rt1 == straight_uchar_to_premul_float(cp1)
      rt2 == straight_uchar_to_premul_float(cp2)
      mfac == RSub(One, RMul(fac, rt1[4]))
  IN  IF RLe(fac, Zero) THEN cp1
      ELSE IF RLe(mfac, Zero) THEN cp2
      ELSE premul_float_to_straight_uchar(
             [i \in 1..4 |-> RAdd(RMul(fac, rt1[i]), RMul(mfac, rt2[i]))])

\* Variant of alphaover_tempc that leaves the second input out of alpha.
alphaover_tempc_alpha1(fac, mfac, rt1, rt2) ==
  [i \in 1..4 |-> IF i = 4 THEN RMul(fac, rt1[4])
                  ELSE RAdd(RMul(fac, rt1[i]), RMul(mfac, rt2[i]))]

\* tempc of the blend branch of do_alphaover_effect_byte.
alphaover_tempc(fac, mfac, rt1, rt2) ==
  [i \in 1..4 |-> RAdd(RMul(fac, rt1[i]), RMul(mfac, rt2[i]))]

do_alphaover_effect_byte(fac, cp1, cp2) ==
  LET rt1 == straight_uchar_to_premul_float(cp1)
      rt2 == straight_uchar_to_premul_float(cp2)
      mfac == RSub(One, RMul(fac, rt1[4]))
  IN  IF RLe(fac, Zero) THEN cp2
      ELSE IF RLe(mfac, Zero) THEN cp1
      ELSE premul_float_to_straight_uchar(alphaover_tempc(fac, mfac, rt1, rt2))

(***************************************************************************)
(* Alpha under.                                                            *)
(***************************************************************************)
\* The branch do_alphaunder_effect_byte takes, from fac and the
\* (premultiplied) alpha of the second input.
alphaunder_case_byte(fac, alpha2) ==
  IF RLe(alpha2, Zero) /\ RLe(One, fac) THEN "input1"
  ELSE IF RLe(One, alpha2) THEN "input2"
  ELSE IF RLe(fac, Zero) THEN "input2"
  ELSE "blend"

\* The branch do_alphaunder_effect_float takes.
alphaunder_case_float(fac, alpha2) ==
  IF RLe(alpha2, Zero) /\ RLe(One, fac) THEN "input1"
  ELSE IF RLe(One, alpha2) THEN "input2"
  ELSE IF fac = Zero THEN "input2"
  ELSE "blend"

\* temp_fac * rt1 + rt2, the blend branch of both alpha-under functions.
alphaunder_tempc(fac, rt1, rt2) ==
  LET temp_fac == RMul(fac, RSub(One, rt2[4]))
  IN  [i \in 1..4 |-> RAdd(RMul(temp_fac, rt1[i]), rt2[i])]

do_alphaunder_effect_byte(fac, cp1, cp2) ==
  LET rt1 == straight_uchar_to_premul_float(cp1)
      rt2 == straight_uchar_to_premul_float(cp2)
      branch == alphaunder_case_byte(fac, rt2[4])
  IN  CASE branch = "input1" -> cp1
        [] branch = "input2" -> cp2
        [] OTHER -> premul_float_to_straight_uchar(alphaunder_tempc(fac, rt1, rt2))

do_alphaunder_effect_float(fac, rt1, rt2) ==
  LET branch == alphaunder_case_float(fac, rt2[4])
  IN  CASE branch = "input1" -> rt1
        [] branch = "input2" -> rt2
        [] OTHER -> alphaunder_tempc(fac, rt1, rt2)

(***************************************************************************)
(* Add, subtract, multiply.                                                *)
(***************************************************************************)
\* Variant of do_add_effect_byte that takes the alpha of the second input.
do_add_effect_byte_alpha2(fac, cp1, cp2) ==
  LET temp_fac == FloatToInt(RMul(F(256), fac))
      temp_fac2 == temp_fac * cp2[4]
  IN  [i \in 1..4 |->
        IF i = 4 THEN cp2[4]
        ELSE Uchar(min_ii(cp1[i] + Shr(temp_fac2 * cp2[i], 16), 255))]

\* The int values do_add_effect_byte computes, before they are stored.
do_add_effect_byte_int(fac, cp1, cp2) ==
  LET temp_fac == FloatToInt(RMul(F(256), fac))
      temp_fac2 == temp_fac * cp2[4]
  IN  [i \in 1..4 |->
        IF i = 4 THEN cp1[4]
        ELSE min_ii(cp1[i] + Shr(temp_fac2 * cp2[i], 16), 255)]

do_add_effect_byte(fac, cp1, cp2) ==
  [i \in 1..4 |-> Uchar(do_add_effect_byte_int(fac, cp1, cp2)[i])]

do_add_effect_float(fac, rt1, rt2) ==
  LET temp_fac == RMul(RSub(One, RMul(rt1[4], RSub(One, fac))), rt2[4])
  IN  [i \in 1..4 |->
        IF i = 4 THEN rt1[4] ELSE RAdd(rt1[i], RMul(temp_fac, rt2[i]))]

\* The int values do_sub_effect_byte computes, before they are stored.
do_sub_effect_byte_int(fac, cp1, cp2) ==
  LET temp_fac == FloatToInt(RMul(F(256), fac))
      temp_fac2 == temp_fac * cp2[4]
  IN  [i \in 1..4 |->
        IF i = 4 THEN cp1[4]
        ELSE max_ii(cp1[i] - Shr(temp_fac2 * cp2[i], 16), 0)]

do_sub_effect_byte(fac, cp1, cp2) ==
  [i \in 1..4 |-> Uchar(do_sub_effect_byte_int(fac, cp1, cp2)[i])]

do_sub_effect_float(fac, rt1, rt2) ==
  LET mfac == RSub(One, fac)
      temp_fac == RMul(RSub(One, RMul(rt1[4], mfac)), rt2[4])
  IN  [i \in 1..4 |->
        IF i = 4 THEN rt1[4]
        ELSE RMax(RSub(rt1[i], RMul(temp_fac, rt2[i])), Zero)]

\* The int values do_mul_effect_byte computes, before they are stored.
do_mul_effect_byte_int(fac, rt1, rt2) ==
  LET temp_fac == FloatToInt(RMul(F(256), fac))
  IN  [i \in 1..4 |-> rt1[i] + Shr(temp_fac * rt1[i] * (rt2[i] - 255), 16)]

do_mul_effect_byte(fac, rt1, rt2) ==
  [i \in 1..4 |-> Uchar(do_mul_effect_byte_int(fac, rt1, rt2)[i])]

do_mul_effect_float(fac, rt1, rt2) ==
  [i \in 1..4 |-> RAdd(rt1[i], RMul(RMul(fac, rt1[i]), RSub(rt2[i], One)))]

(***************************************************************************)
(* Blend function library (imbuf), the modes the model exercises.          *)
(* A blend function writes the three colour channels of dst when the       *)
(* second pixel's alpha is not zero, and copies src1 otherwise.            *)
(***************************************************************************)
blend_color_darken_byte(dst, src1, src2) ==
  LET fac == Rat(src2[4], 255)
      mfac == RSub(One, fac)
  IN  IF fac = Zero THEN src1
      ELSE [i \in 1..4 |->
             IF i = 4 THEN dst[4]
             ELSE FloatToInt(RAdd(RMul(F(min_ii(src1[i], src2[i])), fac),
                                  RMul(F(src1[i]), mfac)))]

blend_color_screen_byte(dst, src1, src2) ==
  LET fac == Rat(src2[4], 255)
      mfac == RSub(One, fac)
  IN  IF fac = Zero THEN src1
      ELSE [i \in 1..4 |->
             IF i = 4 THEN dst[4]
             ELSE LET temp == max_ii(255 - (((255 - src1[i]) * (255 - src2[i])) \div 255), 0)
                  IN  FloatToInt(RAdd(RMul(F(temp), fac), RMul(F(src1[i]), mfac)))]

blend_color_darken_float(dst, src1, src2) ==
  LET fac == src2[4]
      mfac == RSub(One, fac)
  IN  IF fac = Zero THEN src1
      ELSE [i \in 1..4 |->
             IF i = 4 THEN dst[4]
             ELSE RAdd(RMul(RMin(src1[i], src2[i]), fac), RMul(src1[i], mfac))]

blend_color_screen_float(dst, src1, src2) ==
  LET fac == src2[4]
      mfac == RSub(One, fac)
  IN  IF fac = Zero THEN src1
      ELSE [i \in 1..4 |->
             IF i = 4 THEN dst[4]
             ELSE LET temp == RMax(RSub(One, RMul(RSub(One, src1[i]), RSub(One, src2[i]))), Zero)
                  IN  RAdd(RMul(temp, fac), RMul(src1[i], mfac))]

BlendModes == {"SEQ_TYPE_DARKEN", "SEQ_TYPE_SCREEN"}

(***************************************************************************)
(* Blend mode effect: the body of the pixel loop of apply_blend_function.  *)
(***************************************************************************)
\* rt2[3] = uint(achannel) * fac: the values the store can leave in rt2[3].
scaled_alpha_byte(fac, achannel) == FloatToUcharOutcomes(RMul(F(achannel), fac))

\* rt2[3] = achannel * fac.
scaled_alpha_float(fac, achannel) == {RMul(achannel, fac)}

\* The switch of do_blend_effect_byte / do_blend_effect_float: the blend
\* function called for btype, or no write at all for an unlisted btype.
do_blend_effect_byte(btype, dst, src1, src2) ==
  CASE btype = "SEQ_TYPE_DARKEN" -> blend_color_darken_byte(dst, src1, src2)
    [] btype = "SEQ_TYPE_SCREEN" -> blend_color_screen_byte(dst, src1, src2)
    [] OTHER -> dst

do_blend_effect_float(btype, dst, src1, src2) ==
  CASE btype = "SEQ_TYPE_DARKEN" -> blend_color_darken_float(dst, src1, src2)
    [] btype = "SEQ_TYPE_SCREEN" -> blend_color_screen_float(dst, src1, src2)
    [] OTHER -> dst

\* Variant of apply_blend_function_byte that leaves the alpha the blend
\* function wrote in the output.
apply_blend_function_byte_blend_alpha(btype, dst, rt1, rt2, scaled) ==
  do_blend_effect_byte(btype, dst, rt1, [rt2 EXCEPT ![4] = scaled])

\* blend_function(rt, rt1, rt2); rt2[3] = achannel; rt[3] = rt1[3];
\* with rt2 holding the scaled alpha `scaled` during the call.
apply_blend_function_byte(btype, dst, rt1, rt2, scaled) ==
  [do_blend_effect_byte(btype, dst, rt1, [rt2 EXCEPT ![4] = scaled]) EXCEPT ![4] = rt1[4]]

apply_blend_function_float(btype, dst, rt1, rt2, scaled) ==
  [do_blend_effect_float(btype, dst, rt1, [rt2 EXCEPT ![4] = scaled]) EXCEPT ![4] = rt1[4]]

(***************************************************************************)
(* Wipe.  wipe->angle is given by its sign and by the tangent of its       *)
(* absolute value as a triple: tanf(fabsf(angle)) = tn / td and            *)
(* sqrtf(tan^2 + 1) = hn / td.  The last two entries are angle = +-90      *)
(* degrees: tanf of the float nearest to pi/2 is -22877332.                *)
(***************************************************************************)
WipeAngles ==
  { [neg |-> FALSE, tn |-> 0, td |-> 1, hn |-> 1],
    [neg |-> FALSE, tn |-> 3, td |-> 4, hn |-> 5],
    [neg |-> TRUE, tn |-> 3, td |-> 4, hn |-> 5],
    [neg |-> TRUE, tn |-> 4, td |-> 3, hn |-> 5],
    [neg |-> FALSE, tn |-> -22877332, td |-> 1, hn |-> 22877332],
    [neg |-> TRUE, tn |-> -22877332, td |-> 1, hn |-> 22877332] }

precalc_wipe_zone(wipe, xo, yo) ==
  [ flip |-> wipe.angle.neg,
    angle |-> Rat(wipe.angle.tn, wipe.angle.td),
    xo |-> xo,
    yo |-> yo,
    width |-> FloatToInt(RMul(wipe.edgeWidth, Rat(xo + yo, 2))),
    pythangle |-> Rat(wipe.angle.td, wipe.angle.hn),
    type |-> wipe.wipetype,
    forward |-> wipe.forward # 0 ]

\* Variant of in_band that answers with the other side outside the band.
in_band_other_side(width, dist, side, dir) ==
  IF width = Zero THEN F(1 - side)
  ELSE IF RLt(width, dist) THEN F(1 - side)
  ELSE LET alpha == IF side = 1
                    THEN RDiv(RAdd(dist, RMul(Half, width)), width)
                    ELSE RDiv(RSub(RMul(Half, width), dist), width)
       IN  IF dir = 0 THEN RSub(One, alpha) ELSE alpha

in_band(width, dist, side, dir) ==
  IF width = Zero THEN F(side)
  ELSE IF RLt(width, dist) THEN F(side)
  ELSE LET alpha == IF side = 1
                    THEN RDiv(RAdd(dist, RMul(Half, width)), width)
                    ELSE RDiv(RSub(RMul(Half, width), dist), width)
       IN  IF dir = 0 THEN RSub(One, alpha) ELSE alpha

\* check_zone for wipezone->type = DO_SINGLE_WIPE.
check_zone(wipezone, x0, y, fac) ==
  LET xo == wipezone.xo
      yo == wipezone.yo
      x == IF wipezone.flip THEN xo - x0 ELSE x0
      angle == wipezone.angle
      posx == IF wipezone.forward THEN RMul(fac, F(xo)) ELSE RSub(F(xo), RMul(fac, F(xo)))
      posy == IF wipezone.forward THEN RMul(fac, F(yo)) ELSE RSub(F(yo), RMul(fac, F(yo)))
      width0 == min_ii(wipezone.width, FloatToInt(RMul(fac, F(yo))))
      width == min_ii(width0, FloatToInt(RSub(F(yo), RMul(fac, F(yo)))))
      c1 == IF angle = Zero THEN posy ELSE RAdd(posy, RMul(angle, posx))
      c2 == IF angle = Zero THEN F(y) ELSE RAdd(F(y), RMul(angle, F(x)))
      hyp == IF angle = Zero THEN RAbs(RSub(F(y), posy))
             ELSE RMul(RAbs(RAdd(RAdd(RMul(angle, F(x)), F(y)),
                                 RSub(RNeg(posy), RMul(angle, posx)))),
                       wipezone.pythangle)
      b1 == IF RLt(angle, Zero) THEN c2 ELSE c1
      b2 == IF RLt(angle, Zero) THEN c1 ELSE c2
      output == IF wipezone.forward
                THEN IF RLt(b1, b2) THEN in_band(F(width), hyp, 1, 1)
                     ELSE in_band(F(width), hyp, 0, 1)
                ELSE IF RLt(b1, b2) THEN in_band(F(width), hyp, 0, 1)
                     ELSE in_band(F(width), hyp, 1, 1)
  IN  IF RLt(output, Zero) THEN Zero
      ELSE IF RLt(One, output) THEN One
      ELSE output

\* The pixel loop body of do_wipe_effect_byte / _float (both inputs present).
do_wipe_effect_byte(wipezone, fac, x, y, cp1, cp2) ==
  LET check == check_zone(wipezone, x, y, fac)
      rt1 == straight_uchar_to_premul_float(cp1)
      rt2 == straight_uchar_to_premul_float(cp2)
  IN  IF check # Zero
      THEN premul_float_to_straight_uchar(
             [i \in 1..4 |-> RAdd(RMul(rt1[i], check), RMul(rt2[i], RSub(One, check)))])
      ELSE cp2

do_wipe_effect_float(wipezone, fac, x, y, rt1, rt2) ==
  LET check == check_zone(wipezone, x, y, fac)
  IN  IF check # Zero
      THEN [i \in 1..4 |-> RAdd(RMul(rt1[i], check), RMul(rt2[i], RSub(One, check)))]
      ELSE rt2


(***************************************************************************)
(* Effect handle registry.  A function pointer is the name of the          *)
(* function it points to; "nullptr" is the null pointer.                   *)
(***************************************************************************)
BlendModeTypes ==
  { "SEQ_TYPE_SCREEN", "SEQ_TYPE_OVERLAY", "SEQ_TYPE_COLOR_BURN", "SEQ_TYPE_LINEAR_BURN",
    "SEQ_TYPE_DARKEN", "SEQ_TYPE_LIGHTEN", "SEQ_TYPE_DODGE", "SEQ_TYPE_SOFT_LIGHT",
    "SEQ_TYPE_HARD_LIGHT", "SEQ_TYPE_PIN_LIGHT", "SEQ_TYPE_LIN_LIGHT",
    "SEQ_TYPE_VIVID_LIGHT", "SEQ_TYPE_BLEND_COLOR", "SEQ_TYPE_HUE",
    "SEQ_TYPE_SATURATION", "SEQ_TYPE_VALUE", "SEQ_TYPE_DIFFERENCE", "SEQ_TYPE_EXCLUSION" }

DefaultHandle ==
  [ multithreaded |-> FALSE,
    supports_mask |-> FALSE,
    init |-> "init_noop",
    num_inputs |-> "num_inputs_default",
    load |-> "load_noop",
    free |-> "free_noop",
    early_out |-> "early_out_noop",
    get_default_fac |-> "get_default_fac_noop",
    execute |-> "nullptr",
    init_execution |-> "init_execution",
    execute_slice |-> "nullptr",
    copy |-> "nullptr" ]

get_sequence_effect_impl(seq_type) ==
  CASE seq_type = "SEQ_TYPE_CROSS" ->
         [DefaultHandle EXCEPT !.multithreaded = TRUE,
                               !.execute_slice = "do_cross_effect",
                               !.early_out = "early_out_fade",
                               !.get_default_fac = "get_default_fac_fade"]
    [] seq_type = "SEQ_TYPE_GAMCROSS" ->
         [DefaultHandle EXCEPT !.multithreaded = TRUE,
                               !.early_out = "early_out_fade",
                               !.get_default_fac = "get_default_fac_fade",
                               !.init_execution = "gammacross_init_execution",
                               !.execute_slice = "do_gammacross_effect"]
    [] seq_type = "SEQ_TYPE_ADD" ->
         [DefaultHandle EXCEPT !.multithreaded = TRUE,
                               !.execute_slice = "do_add_effect",
                               !.early_out = "early_out_mul_input2"]
    [] seq_type = "SEQ_TYPE_SUB" ->
         [DefaultHandle EXCEPT !.multithreaded = TRUE,
                               !.execute_slice = "do_sub_effect",
                               !.early_out = "early_out_mul_input2"]
    [] seq_type = "SEQ_TYPE_MUL" ->
         [DefaultHandle EXCEPT !.multithreaded = TRUE,
                               !.execute_slice = "do_mul_effect",
                               !.early_out = "early_out_mul_input2"]
    [] seq_type \in BlendModeTypes ->
         [DefaultHandle EXCEPT !.multithreaded = TRUE,
                               !.execute_slice = "do_blend_mode_effect",
                               !.early_out = "early_out_mul_input2"]
    [] seq_type = "SEQ_TYPE_COLORMIX" ->
         [DefaultHandle EXCEPT !.multithreaded = TRUE,
                               !.init = "init_colormix_effect",
                               !.free = "free_effect_default",
                               !.copy = "copy_effect_default",
                               !.execute_slice = "do_colormix_effect",
                               !.early_out = "early_out_mul_input2"]
    [] seq_type = "SEQ_TYPE_ALPHAOVER" ->
         [DefaultHandle EXCEPT !.multithreaded = TRUE,
                               !.init = "init_alpha_over_or_under",
                               !.execute_slice = "do_alphaover_effect",
                               !.early_out = "early_out_mul_input1"]
    [] seq_type = "SEQ_TYPE_OVERDROP" ->
         [DefaultHandle EXCEPT !.multithreaded = TRUE,
                               !.execute_slice = "do_overdrop_effect"]
    [] seq_type = "SEQ_TYPE_ALPHAUNDER" ->
         [DefaultHandle EXCEPT !.multithreaded = TRUE,
                               !.init = "init_alpha_over_or_under",
                               !.execute_slice = "do_alphaunder_effect"]
    [] seq_type = "SEQ_TYPE_WIPE" ->
         [DefaultHandle EXCEPT !.init = "init_wipe_effect",
                               !.num_inputs = "num_inputs_wipe",
                               !.free = "free_wipe_effect",
                               !.copy = "copy_wipe_effect",
                               !.early_out = "early_out_fade",
                               !.get_default_fac = "get_default_fac_fade",
                               !.execute = "do_wipe_effect"]
    [] seq_type = "SEQ_TYPE_GLOW" ->
         [DefaultHandle EXCEPT !.init = "init_glow_effect",
                               !.num_inputs = "num_inputs_glow",
                               !.free = "free_glow_effect",
                               !.copy = "copy_glow_effect",
                               !.execute = "do_glow_effect"]
    [] seq_type = "SEQ_TYPE_TRANSFORM" ->
         [DefaultHandle EXCEPT !.multithreaded = TRUE,
                               !.init = "init_transform_effect",
                               !.num_inputs = "num_inputs_transform",
                               !.free = "free_transform_effect",
                               !.copy = "copy_transform_effect",
                               !.execute_slice = "do_transform_effect"]
    [] seq_type = "SEQ_TYPE_SPEED" ->
         [DefaultHandle EXCEPT !.init = "init_speed_effect",
                               !.num_inputs = "num_inputs_speed",
                               !.load = "load_speed_effect",
                               !.free = "free_speed_effect",
                               !.copy = "copy_speed_effect",
                               !.execute = "do_speed_effect",
                               !.early_out = "early_out_speed"]
    [] seq_type = "SEQ_TYPE_COLOR" ->
         [DefaultHandle EXCEPT !.init = "init_solid_color",
                               !.num_inputs = "num_inputs_color",
                               !.early_out = "early_out_color",
                               !.free = "free_solid_color",
                               !.copy = "copy_solid_color",
                               !.execute = "do_solid_color"]
    [] seq_type = "SEQ_TYPE_MULTICAM" ->
         [DefaultHandle EXCEPT !.num_inputs = "num_inputs_multicam",
                               !.early_out = "early_out_multicam",
                               !.execute = "do_multicam"]
    [] seq_type = "SEQ_TYPE_ADJUSTMENT" ->
         [DefaultHandle EXCEPT !.supports_mask = TRUE,
                               !.num_inputs = "num_inputs_adjustment",
                               !.early_out = "early_out_adjustment",
                               !.execute = "do_adjustment"]
    [] seq_type = "SEQ_TYPE_GAUSSIAN_BLUR" ->
         [DefaultHandle EXCEPT !.init = "init_gaussian_blur_effect",
                               !.num_inputs = "num_inputs_gaussian_blur",
                               !.free = "free_gaussian_blur_effect",
                               !.copy = "copy_gaussian_blur_effect",
                               !.early_out = "early_out_gaussian_blur",
                               !.execute = "do_gaussian_blur_effect"]
    [] seq_type = "SEQ_TYPE_TEXT" ->
         [DefaultHandle EXCEPT !.num_inputs = "num_inputs_text",
                               !.init = "init_text_effect",
                               !.free = "free_text_effect",
                               !.load = "load_text_effect",
                               !.copy = "copy_text_effect",
                               !.early_out = "early_out_text",
                               !.execute = "do_text_effect"]
    [] OTHER -> DefaultHandle

(***************************************************************************)
(* Early-out classification.                                               *)
(***************************************************************************)
early_out_noop(fac) == "EARLY_DO_EFFECT"

early_out_fade(fac) ==
  IF fac = Zero THEN "EARLY_USE_INPUT_1"
  ELSE IF fac = One THEN "EARLY_USE_INPUT_2"
  ELSE "EARLY_DO_EFFECT"

early_out_mul_input2(fac) ==
  IF fac = Zero THEN "EARLY_USE_INPUT_1" ELSE "EARLY_DO_EFFECT"

early_out_mul_input1(fac) ==
  IF fac = Zero THEN "EARLY_USE_INPUT_2" ELSE "EARLY_DO_EFFECT"

\* sh.early_out(seq, fac) for the handle sh of seq_type.
early_out(seq_type, fac) ==
  LET f == get_sequence_effect_impl(seq_type).early_out
  IN  CASE f = "early_out_fade" -> early_out_fade(fac)
        [] f = "early_out_mul_input2" -> early_out_mul_input2(fac)
        [] f = "early_out_mul_input1" -> early_out_mul_input1(fac)
        [] OTHER -> early_out_noop(fac)


(***************************************************************************)
(* Frame size and inputs.                                                  *)
(***************************************************************************)
Width == 2
Height == 2

BytePixels ==
  { <<255, 0, 0, 255>>, <<0, 0, 255, 255>>, <<10, 20, 30, 0>>, <<255, 85, 51, 85>> }

FloatPixels ==
  { <<One, Zero, Zero, One>>, <<Zero, Zero, One, One>>,
    <<Rat(1, 4), Rat(1, 2), One, Zero>>, <<Rat(1, 4), Rat(1, 16), Zero, Rat(1, 4)>> }

Pixels(isFloat) == IF isFloat THEN FloatPixels ELSE BytePixels

Facs == { Rat(-1, 2), Zero, Rat(1, 4), Rat(1, 2), One, Rat(3, 2) }

\* Cross is also run at a factor that is no multiple of 1/256.
FacsOf(seq_type) == IF seq_type = "SEQ_TYPE_CROSS" THEN Facs \cup {Rat(3, 512)} ELSE Facs

ColorMixVars ==
  [ blend_effect : BlendModes, factor : {Zero, Half, One} ]

WipeVars ==
  [ angle : WipeAngles, edgeWidth : {Zero, Half, One}, forward : {0, 1},
    wipetype : {"DO_SINGLE_WIPE"} ]

NoData == [none |-> TRUE]

TwoInputTypes ==
  { "SEQ_TYPE_CROSS", "SEQ_TYPE_GAMCROSS", "SEQ_TYPE_ADD", "SEQ_TYPE_SUB", "SEQ_TYPE_MUL",
    "SEQ_TYPE_ALPHAOVER", "SEQ_TYPE_ALPHAUNDER", "SEQ_TYPE_OVERDROP" } \cup BlendModes

GammaOk(isFloat, p) ==
  LET q == IF isFloat THEN p ELSE straight_uchar_to_premul_float(p)
  IN  \A i \in 1..4 : HasSqrt(q[i])

(***************************************************************************)
(* One pixel of an effect: the effect function called on a 1-pixel slice   *)
(* at frame position (x, y).  The set of outputs the call can leave.       *)
(***************************************************************************)
ExecutePixel(c) ==
  LET dst == IF c.isFloat THEN <<Zero, Zero, Zero, Zero>> ELSE <<0, 0, 0, 0>>
  IN
  CASE c.type = "SEQ_TYPE_CROSS" ->
         IF c.isFloat THEN {do_cross_effect_float(c.fac, c.in1, c.in2)}
         ELSE {do_cross_effect_byte(c.fac, c.in1, c.in2)}
    [] c.type = "SEQ_TYPE_GAMCROSS" ->
         IF c.isFloat THEN {do_gammacross_effect_float(c.fac, c.in1, c.in2)}
         ELSE {do_gammacross_effect_byte(c.fac, c.in1, c.in2)}
    [] c.type = "SEQ_TYPE_ADD" ->
         IF c.isFloat THEN {do_add_effect_float(c.fac, c.in1, c.in2)}
         ELSE {do_add_effect_byte(c.fac, c.in1, c.in2)}
    [] c.type = "SEQ_TYPE_SUB" ->
         IF c.isFloat THEN {do_sub_effect_float(c.fac, c.in1, c.in2)}
         ELSE {do_sub_effect_byte(c.fac, c.in1, c.in2)}
    [] c.type = "SEQ_TYPE_MUL" ->
         IF c.isFloat THEN {do_mul_effect_float(c.fac, c.in1, c.in2)}
         ELSE {do_mul_effect_byte(c.fac, c.in1, c.in2)}
    [] c.type = "SEQ_TYPE_ALPHAOVER" ->
         IF c.isFloat THEN {do_alphaover_effect_float(c.fac, c.in1, c.in2)}
         ELSE {do_alphaover_effect_byte(c.fac, c.in1, c.in2)}
    [] c.type = "SEQ_TYPE_ALPHAUNDER" ->
         IF c.isFloat THEN {do_alphaunder_effect_float(c.fac, c.in1, c.in2)}
         ELSE {do_alphaunder_effect_byte(c.fac, c.in1, c.in2)}
    [] c.type = "SEQ_TYPE_OVERDROP" ->
         \* do_overdrop_effect: the alpha-over call overwrites what the drop call wrote
         IF c.isFloat THEN {do_alphaover_effect_float(c.fac, c.in1, c.in2)}
         ELSE {do_alphaover_effect_byte(c.fac, c.in1, c.in2)}
    [] c.type \in BlendModeTypes ->
         \* do_blend_mode_effect: btype is seq->blend_mode
         IF c.isFloat
         THEN {apply_blend_function_float(c.type, dst, c.in1, c.in2, a) :
                 a \in scaled_alpha_float(c.fac, c.in2[4])}
         ELSE {apply_blend_function_byte(c.type, dst, c.in1, c.in2, a) :
                 a \in scaled_alpha_byte(c.fac, c.in2[4])}
    [] c.type = "SEQ_TYPE_COLORMIX" ->
         \* do_colormix_effect: fac is data->factor, btype is data->blend_effect
         IF c.isFloat
         THEN {apply_blend_function_float(c.data.blend_effect, dst, c.in1, c.in2, a) :
                 a \in scaled_alpha_float(c.data.factor, c.in2[4])}
         ELSE {apply_blend_function_byte(c.data.blend_effect, dst, c.in1, c.in2, a) :
                 a \in scaled_alpha_byte(c.data.factor, c.in2[4])}
    [] c.type = "SEQ_TYPE_WIPE" ->
         LET wipezone == precalc_wipe_zone(c.data, Width, Height)
         IN  IF c.isFloat THEN {do_wipe_effect_float(wipezone, c.fac, c.x, c.y, c.in1, c.in2)}
             ELSE {do_wipe_effect_byte(wipezone, c.fac, c.x, c.y, c.in1, c.in2)}

TwoInputCalls(isFloat) ==
  { c \in [ type : TwoInputTypes, isFloat : {isFloat}, fac : Facs \cup {Rat(3, 512)},
            in1 : Pixels(isFloat), in2 : Pixels(isFloat),
            data : {NoData}, x : {0}, y : {0} ] :
      /\ c.fac \in FacsOf(c.type)
      /\ c.type = "SEQ_TYPE_GAMCROSS" =>
           GammaOk(c.isFloat, c.in1) /\ GammaOk(c.isFloat, c.in2) }

ColorMixCalls(isFloat) ==
  [ type : {"SEQ_TYPE_COLORMIX"}, isFloat : {isFloat}, fac : {Zero, One},
    in1 : Pixels(isFloat), in2 : Pixels(isFloat),
    data : ColorMixVars, x : {0}, y : {0} ]

WipeFacs == {Zero, Rat(1, 4), Half, One}

\* At +-90 degrees the wipe is run with a hard edge only.
WipeCalls(isFloat) ==
  { c \in [ type : {"SEQ_TYPE_WIPE"}, isFloat : {isFloat}, fac : WipeFacs,
            in1 : IF isFloat
                  THEN {<<One, Zero, Zero, One>>, <<Rat(1, 4), Rat(1, 2), One, Zero>>}
                  ELSE {<<255, 0, 0, 255>>, <<10, 20, 30, 0>>},
            in2 : IF isFloat THEN {<<Zero, Zero, One, One>>} ELSE {<<0, 0, 255, 255>>},
            data : WipeVars, x : 0..(Width - 1), y : 0..(Height - 1) ] :
      c.data.angle.tn < 0 => c.data.edgeWidth = Zero }

PixelCalls(isFloat) ==
  TwoInputCalls(isFloat) \cup ColorMixCalls(isFloat) \cup WipeCalls(isFloat)

NoCall == [type |-> "none"]
NoResult == <<>>

ExecIdle ==
  /\ inv = [phase |-> "idle"]
  /\ ibuf1 = <<>>
  /\ ibuf2 = <<>>
  /\ out = <<>>
  /\ task = <<>>
  /\ writes = <<>>

\* No strip exists, the heap is empty, no font is loaded, no thread runs.
StripIdle ==
  /\ seq = <<>>
  /\ mem = <<>>
  /\ fonts = [us |-> <<0, 0>>, ref |-> <<0, 0>>]
  /\ thread = <<>>
  /\ ret = [op |-> "none"]
  /\ log = [loads |-> <<>>, casts |-> {}, writers |-> {}]

PixelInit ==
  /\ \/ call \in PixelCalls(FALSE)
     \/ call \in PixelCalls(TRUE)
  /\ result = NoResult
  /\ ExecIdle
  /\ StripIdle

ApplyPixel ==
  /\ result = NoResult
  /\ \E o \in ExecutePixel(call) : result' = o
  /\ UNCHANGED <<call, execVars, stripVars>>

PixelNext == ApplyPixel

PixelSpec == PixelInit /\ [][PixelNext]_vars


(***************************************************************************)
(* Drop shadow: the value do_drop_effect_byte / _float leaves at pixel k   *)
(* of the slice (x pixels per line, y lines).  rect2i and rect1i are the   *)
(* slices of the two inputs, indexed from 0.                               *)
(***************************************************************************)
XOFF == 8
YOFF == 8

do_drop_effect_byte(fac, x, y, rect2i, rect1i, k) ==
  LET xoff == min_ii(XOFF, x)
      yoff == min_ii(YOFF, y)
      temp_fac == FloatToInt(RMul(F(70), fac))
      i == k \div x
      j == k % x
  IN  IF i < y - yoff /\ j >= xoff
      THEN LET temp_fac2 == Shr(temp_fac * rect2i[(i + yoff) * x + (j - xoff)][4], 8)
           IN  [c \in 1..4 |-> Uchar(max_ii(0, rect1i[k][c] - temp_fac2))]
      ELSE rect1i[k]

do_drop_effect_float(fac, x, y, rect2i, rect1i, k) ==
  LET xoff == min_ii(XOFF, x)
      yoff == min_ii(YOFF, y)
      temp_fac == RMul(F(70), fac)
      i == k \div x
      j == k % x
  IN  IF i < y - yoff /\ j >= xoff
      THEN LET temp_fac2 == RMul(temp_fac, rect2i[(i + yoff) * x + (j - xoff)][4])
           IN  [c \in 1..4 |-> RMax(Zero, RSub(rect1i[k][c], temp_fac2))]
      ELSE rect1i[k]

(***************************************************************************)
(* Sliced execution of one effect invocation.  A buffer is a function      *)
(* from the pixel index 0 .. Width * Height - 1 (line by line) to a pixel. *)
(***************************************************************************)
NumPixels == Width * Height

PixelIndex == 0..(NumPixels - 1)

\* slice_get_byte_buffers / slice_get_float_buffers: the slice starts
\* start_line * context->rectx pixels into each buffer.
slice_get_buffers(start_line) == start_line * Width

\* The slice of buffer buf that starts at start_line and has total_lines lines.
Slice(buf, start_line, total_lines) ==
  [k \in 0..(total_lines * Width - 1) |-> buf[slice_get_buffers(start_line) + k]]

\* The partitions of the lines into contiguous slices, one task per slice,
\* each slice named by its first line.
Slicings ==
  { LET bounds == {0, Height} \cup cuts
    IN  [s \in bounds \ {Height} |->
           [ start_line |-> s,
             total_lines |-> (CHOOSE b \in bounds :
                                /\ b > s
                                /\ \A c \in bounds : c > s => b <= c) - s ]] :
    cuts \in SUBSET (1..(Height - 1)) }

ExecTypes ==
  { "SEQ_TYPE_CROSS", "SEQ_TYPE_ADD", "SEQ_TYPE_SUB", "SEQ_TYPE_MUL", "SEQ_TYPE_ALPHAOVER",
    "SEQ_TYPE_OVERDROP", "SEQ_TYPE_DARKEN", "SEQ_TYPE_SCREEN", "SEQ_TYPE_COLORMIX" }

ExecFacs == { Zero, Rat(1, 4), Half, Rat(3, 2) }

ExecData(seq_type) ==
  IF seq_type = "SEQ_TYPE_COLORMIX"
  THEN { [blend_effect |-> "SEQ_TYPE_SCREEN", factor |-> Half] }
  ELSE { NoData }

BytePalette == << <<255, 0, 0, 255>>, <<0, 0, 255, 255>>, <<10, 20, 30, 0>>, <<255, 85, 51, 85>> >>

FloatPalette ==
  << <<One, Zero, Zero, One>>, <<Zero, Zero, One, One>>,
     <<Rat(1, 4), Rat(1, 2), One, Zero>>, <<Rat(1, 4), Rat(1, 16), Zero, Rat(1, 4)>> >>

Palette(isFloat) == IF isFloat THEN FloatPalette ELSE BytePalette

Uniform(pixel) == [p \in PixelIndex |-> pixel]

Varied(isFloat, shift) == [p \in PixelIndex |-> Palette(isFloat)[((p + shift) % 4) + 1]]

\* Pairs of input images: solid red over solid blue, and a mixed pair.
ImagePairs(isFloat) ==
  { << Uniform(Palette(isFloat)[1]), Uniform(Palette(isFloat)[2]) >>,
    << Varied(isFloat, 0), Varied(isFloat, 1) >> }

\* IMB_allocImBuf returns a zeroed buffer.
ZeroPixel(isFloat) == IF isFloat THEN <<Zero, Zero, Zero, Zero>> ELSE <<0, 0, 0, 0>>

IsBlendFamily(seq_type) == seq_type \in BlendModeTypes \cup {"SEQ_TYPE_COLORMIX"}

Init ==
  /\ call = NoCall
  /\ result = NoResult
  /\ ExecIdle
  /\ StripIdle

\* The render pipeline calls init_execution, which allocates the output,
\* and hands every slice of the frame to a task running execute_slice.
Start(seq_type, isFloat, fac, data, imgs, slicing) ==
  /\ inv.phase = "idle"
  /\ inv' = [ phase |-> "running", type |-> seq_type, isFloat |-> isFloat, fac |-> fac,
              data |-> data, start1 |-> imgs[1], start2 |-> imgs[2] ]
  /\ ibuf1' = imgs[1]
  /\ ibuf2' = imgs[2]
  /\ out' = Uniform(ZeroPixel(isFloat))
  /\ task' = [ s \in DOMAIN slicing |->
                 [ start_line |-> slicing[s].start_line,
                   total_lines |-> slicing[s].total_lines,
                   pass |-> IF seq_type = "SEQ_TYPE_OVERDROP" THEN "drop" ELSE "main",
                   pos |-> 0,
                   scaled |-> FALSE,
                   achannel |-> ZeroPixel(isFloat)[4] ] ]
  /\ writes' = [p \in PixelIndex |-> <<>>]
  /\ UNCHANGED <<pixelVars, stripVars>>

\* The pixel of the frame the task of slice s is at.
TaskPixel(s) == slice_get_buffers(task[s].start_line) + task[s].pos

SliceLen(s) == task[s].total_lines * Width

TaskDone(s) == task[s].pass = "main" /\ task[s].pos = SliceLen(s)

\* One iteration of the pixel loop of do_cross_effect_*, do_add_effect_*,
\* do_sub_effect_*, do_mul_effect_*, do_alphaover_effect_* (also as the second
\* call of do_overdrop_effect).
StepPixel(s) ==
  /\ inv.phase = "running"
  /\ ~IsBlendFamily(inv.type)
  /\ task[s].pass = "main"
  /\ task[s].pos < SliceLen(s)
  /\ LET p == TaskPixel(s)
         c == [ type |-> inv.type, isFloat |-> inv.isFloat, fac |-> inv.fac,
                in1 |-> ibuf1[p], in2 |-> ibuf2[p], data |-> inv.data,
                x |-> p % Width, y |-> p \div Width ]
     IN  /\ \E o \in ExecutePixel(c) : out' = [out EXCEPT ![p] = o]
         /\ writes' = [writes EXCEPT ![p] = Append(@, s)]
  /\ task' = [task EXCEPT ![s].pos = @ + 1]
  /\ UNCHANGED <<inv, ibuf1, ibuf2, pixelVars, stripVars>>

\* Variant of DropPixel after which do_overdrop_effect returns without its
\* alpha-over call.
DropPixel_only(s) ==
  /\ inv.phase = "running"
  /\ task[s].pass = "drop"
  /\ task[s].pos < SliceLen(s)
  /\ LET p == TaskPixel(s)
         rect1 == Slice(ibuf1, task[s].start_line, task[s].total_lines)
         rect2 == Slice(ibuf2, task[s].start_line, task[s].total_lines)
         o == IF inv.isFloat
              THEN do_drop_effect_float(inv.fac, Width, task[s].total_lines,
                                        rect1, rect2, task[s].pos)
              ELSE do_drop_effect_byte(inv.fac, Width, task[s].total_lines,
                                       rect1, rect2, task[s].pos)
     IN  /\ out' = [out EXCEPT ![p] = o]
         /\ writes' = [writes EXCEPT ![p] = Append(@, s)]
  /\ task' = IF task[s].pos + 1 = SliceLen(s)
             THEN [task EXCEPT ![s].pass = "main", ![s].pos = SliceLen(s)]
             ELSE [task EXCEPT ![s].pos = @ + 1]
  /\ UNCHANGED <<inv, ibuf1, ibuf2, pixelVars, stripVars>>

\* do_overdrop_effect, first call: one output pixel of do_drop_effect_*.
\* When the last pixel is written the call returns and the alpha-over call
\* starts at the first pixel of the same slice.
DropPixel(s) ==
  /\ inv.phase = "running"
  /\ task[s].pass = "drop"
  /\ task[s].pos < SliceLen(s)
  /\ LET p == TaskPixel(s)
         rect1 == Slice(ibuf1, task[s].start_line, task[s].total_lines)
         rect2 == Slice(ibuf2, task[s].start_line, task[s].total_lines)
         o == IF inv.isFloat
              THEN do_drop_effect_float(inv.fac, Width, task[s].total_lines,
                                        rect1, rect2, task[s].pos)
              ELSE do_drop_effect_byte(inv.fac, Width, task[s].total_lines,
                                       rect1, rect2, task[s].pos)
     IN  /\ out' = [out EXCEPT ![p] = o]
         /\ writes' = [writes EXCEPT ![p] = Append(@, s)]
  /\ task' = IF task[s].pos + 1 = SliceLen(s)
             THEN [task EXCEPT ![s].pass = "main", ![s].pos = 0]
             ELSE [task EXCEPT ![s].pos = @ + 1]
  /\ UNCHANGED <<inv, ibuf1, ibuf2, pixelVars, stripVars>>

\* The factor and blend type apply_blend_function_* is called with:
\* do_colormix_effect passes data->factor and data->blend_effect,
\* do_blend_mode_effect passes fac and seq->blend_mode.
BlendFac == IF inv.type = "SEQ_TYPE_COLORMIX" THEN inv.data.factor ELSE inv.fac

BlendType == IF inv.type = "SEQ_TYPE_COLORMIX" THEN inv.data.blend_effect ELSE inv.type

\* apply_blend_function_*, first half of the loop body: save the alpha of
\* the second input's pixel and overwrite it with alpha * fac.
BlendScale(s) ==
  /\ inv.phase = "running"
  /\ IsBlendFamily(inv.type)
  /\ task[s].pos < SliceLen(s)
  /\ ~task[s].scaled
  /\ LET p == TaskPixel(s)
         achannel == ibuf2[p][4]
     IN  /\ \E a \in (IF inv.isFloat THEN scaled_alpha_float(BlendFac, achannel)
                      ELSE scaled_alpha_byte(BlendFac, achannel)) :
                ibuf2' = [ibuf2 EXCEPT ![p][4] = a]
         /\ task' = [task EXCEPT ![s].scaled = TRUE, ![s].achannel = achannel]
  /\ UNCHANGED <<inv, ibuf1, out, writes, pixelVars, stripVars>>

\* apply_blend_function_*, second half of the loop body: the blend call,
\* the restore of the saved alpha, and the output alpha.
BlendApply(s) ==
  /\ inv.phase = "running"
  /\ IsBlendFamily(inv.type)
  /\ task[s].scaled
  /\ LET p == TaskPixel(s)
         o == IF inv.isFloat
              THEN apply_blend_function_float(BlendType, out[p], ibuf1[p], ibuf2[p], ibuf2[p][4])
              ELSE apply_blend_function_byte(BlendType, out[p], ibuf1[p], ibuf2[p], ibuf2[p][4])
     IN  /\ out' = [out EXCEPT ![p] = o]
         /\ ibuf2' = [ibuf2 EXCEPT ![p][4] = task[s].achannel]
         /\ writes' = [writes EXCEPT ![p] = Append(@, s)]
  /\ task' = [task EXCEPT ![s].scaled = FALSE, ![s].pos = @ + 1]
  /\ UNCHANGED <<inv, ibuf1, pixelVars, stripVars>>

\* Every task has returned: the invocation ends.
Finish ==
  /\ inv.phase = "running"
  /\ \A s \in DOMAIN task : TaskDone(s)
  /\ inv' = [inv EXCEPT !.phase = "done"]
  /\ UNCHANGED <<ibuf1, ibuf2, out, task, writes, pixelVars, stripVars>>

Next ==
  \/ \E seq_type \in ExecTypes, isFloat \in BOOLEAN, fac \in ExecFacs :
       \E data \in ExecData(seq_type), imgs \in ImagePairs(isFloat), slicing \in Slicings :
         Start(seq_type, isFloat, fac, data, imgs, slicing)
  \/ \E s \in DOMAIN task : StepPixel(s)
  \/ \E s \in DOMAIN task : DropPixel(s)
  \/ \E s \in DOMAIN task : BlendScale(s)
  \/ \E s \in DOMAIN task : BlendApply(s)
  \/ Finish

Spec == Init /\ [][Next]_vars


(***************************************************************************)
(* Properties of the pixel functions, checked under PixelSpec.             *)
(***************************************************************************)
Applied == result # NoResult

IsCall(seq_type, isFloat) == Applied /\ call.type = seq_type /\ call.isFloat = isFloat

\* A byte pixel as the float pixel with the same channel values.
AsFloat(p) == [i \in 1..4 |-> F(p[i])]

\* C2: the byte cross returns the first input exactly at fac = 0 and the
\* second input exactly at fac = 1.
C2_CrossEndpoints ==
  IsCall("SEQ_TYPE_CROSS", FALSE) =>
    /\ call.fac = Zero => result = call.in1
    /\ call.fac = One => result = call.in2

C2_Witness ==
  /\ IsCall("SEQ_TYPE_CROSS", FALSE)
  /\ call.fac = One
  /\ call.in1 # call.in2
  /\ result = call.in2

\* The float interpolation (1 - fac) * a + fac * b of the byte inputs of a cross call.
CrossFloatOfBytes == do_cross_effect_float(call.fac, AsFloat(call.in1), AsFloat(call.in2))

\* C3 as stated: for fac in [0, 1] every channel of the byte cross differs
\* from the float interpolation (1 - fac) * a + fac * b by at most 1.
C3_WithinOneLsb ==
  (IsCall("SEQ_TYPE_CROSS", FALSE) /\ RLe(Zero, call.fac) /\ RLe(call.fac, One)) =>
    \A i \in 1..4 : RLe(RAbs(RSub(F(result[i]), CrossFloatOfBytes[i])), One)

\* C3 amended: for fac in [0, 1] every channel of the byte cross is at most
\* 255/256 above and less than 2 below the float interpolation; the two
\* differ by less than 2, not by at most 1.
C3_WithinTwo ==
  (IsCall("SEQ_TYPE_CROSS", FALSE) /\ RLe(Zero, call.fac) /\ RLe(call.fac, One)) =>
    \A i \in 1..4 :
      /\ RLe(RSub(F(result[i]), CrossFloatOfBytes[i]), Rat(255, 256))
      /\ RLt(RSub(CrossFloatOfBytes[i], F(result[i])), F(2))

C3_Witness ==
  /\ IsCall("SEQ_TYPE_CROSS", FALSE)
  /\ call.fac = Rat(3, 512)
  /\ \E i \in 1..4 : RLt(One, RSub(CrossFloatOfBytes[i], F(result[i])))

\* The alpha of the first input of a call as alpha-over reads it.
AlphaOverAlpha1 ==
  IF call.isFloat THEN call.in1[4] ELSE straight_uchar_to_premul_float(call.in1)[4]

AlphaOverMfac == RSub(One, RMul(call.fac, AlphaOverAlpha1))

\* fac * in1 + mfac * in2 on premultiplied floats, in the encoding of the call.
AlphaOverBlend ==
  LET rt1 == IF call.isFloat THEN call.in1 ELSE straight_uchar_to_premul_float(call.in1)
      rt2 == IF call.isFloat THEN call.in2 ELSE straight_uchar_to_premul_float(call.in2)
      tempc == [i \in 1..4 |-> RAdd(RMul(call.fac, rt1[i]), RMul(AlphaOverMfac, rt2[i]))]
  IN  IF call.isFloat THEN tempc ELSE premul_float_to_straight_uchar(tempc)

\* C4: alpha-over, byte and float: with fac <= 0 the output is the second
\* input verbatim; otherwise with mfac = 1 - fac * alpha1 <= 0 it is the
\* first input verbatim; otherwise it is the blend fac * in1 + mfac * in2.
C4_AlphaOverBranches ==
  (Applied /\ call.type = "SEQ_TYPE_ALPHAOVER") =>
    IF RLe(call.fac, Zero) THEN result = call.in2
    ELSE IF RLe(AlphaOverMfac, Zero) THEN result = call.in1
    ELSE result = AlphaOverBlend

C4_Witness ==
  /\ IsCall("SEQ_TYPE_ALPHAOVER", FALSE)
  /\ call.fac = One
  /\ call.in1 = <<255, 0, 0, 255>>
  /\ call.in2 = <<10, 20, 30, 0>>
  /\ result = call.in1

WipeFirst ==
  IF call.isFloat THEN call.in1
  ELSE premul_float_to_straight_uchar(straight_uchar_to_premul_float(call.in1))

\* The column of the call's pixel after the mirroring of a negative angle.
WipeColumn == IF call.data.angle.neg THEN Width - call.x ELSE call.x

\* The pixel lies on the wipe line through the origin: y + tan * x' = 0.
WipeOnOriginLine == call.y = 0 /\ (call.data.angle.tn = 0 \/ WipeColumn = 0)

C10_EarlyOutAgrees ==
  Applied =>
    /\ early_out(call.type, call.fac) = "EARLY_USE_INPUT_1" => result = call.in1
    /\ early_out(call.type, call.fac) = "EARLY_USE_INPUT_2" => result = call.in2


(***************************************************************************)
(* Properties of the sliced execution, checked under Spec.                 *)
(***************************************************************************)
Red == <<255, 0, 0, 255>>

Blue == <<0, 0, 255, 255>>

\* A byte cross of a solid red over a solid blue frame at fac = 0.25 has ended.
CrossRedBlueDone ==
  /\ inv.phase = "done"
  /\ inv.type = "SEQ_TYPE_CROSS"
  /\ ~inv.isFloat
  /\ inv.fac = Rat(1, 4)
  /\ ibuf1 = Uniform(Red)
  /\ ibuf2 = Uniform(Blue)

\* C1 as stated: the byte cross of a red frame (255, 0, 0, 255) and a blue
\* frame (0, 0, 255, 255) at fac = 0.25 yields (191, 0, 64, 255) at every
\* output pixel.
C1_CrossRedBlue64 ==
  CrossRedBlueDone => \A p \in PixelIndex : out[p] = <<191, 0, 64, 255>>

\* C1 amended: the byte cross of a red frame (255, 0, 0, 255) and a blue
\* frame (0, 0, 255, 255) at fac = 0.25 yields (191, 0, 63, 255) at every
\* output pixel: (64 * 255) >> 8 is 63.
C1_CrossRedBlue63 ==
  CrossRedBlueDone => \A p \in PixelIndex : out[p] = <<191, 0, 63, 255>>

C1_Witness ==
  /\ CrossRedBlueDone
  /\ \A p \in PixelIndex : Len(writes[p]) = 1
  /\ out[0] = <<191, 0, 63, 255>>

InBlendCall == inv.phase \in {"running", "done"} /\ IsBlendFamily(inv.type)

\* The task of slice s is between the alpha scaling and the blend call.
ScaledAt(s, p) == task[s].scaled /\ TaskPixel(s) = p

\* C6: in apply_blend_function_byte / _float, for every pixel, the alpha of
\* the second input is set to alpha * fac (cut to an integer in the byte
\* path) before the blend call, is restored to its original value after
\* it, and the output alpha is the alpha of the first input.
C6_BlendAlpha ==
  InBlendCall =>
    \A p \in PixelIndex :
      /\ \A s \in DOMAIN task :
           ScaledAt(s, p) =>
             LET scaled == RMul(IF inv.isFloat THEN inv.start2[p][4]
                                ELSE F(inv.start2[p][4]), BlendFac)
             IN  /\ writes[p] = <<>>
                 /\ inv.isFloat => ibuf2[p][4] = scaled
                 /\ (~inv.isFloat /\ FloatToInt(scaled) \in 0..255) =>
                      ibuf2[p][4] = FloatToInt(scaled)
                 /\ \A i \in 1..3 : ibuf2[p][i] = inv.start2[p][i]
      /\ (\A s \in DOMAIN task : ~ScaledAt(s, p)) => ibuf2[p] = inv.start2[p]
      /\ writes[p] # <<>> => out[p][4] = ibuf1[p][4]

C6_Witness ==
  /\ InBlendCall
  /\ inv.phase = "running"
  /\ ~inv.isFloat
  /\ BlendFac = Half
  /\ \E s \in DOMAIN task : \E p \in PixelIndex :
       /\ ScaledAt(s, p)
       /\ inv.start2[p][4] = 255
       /\ ibuf2[p][4] = 127
  /\ \E p \in PixelIndex :
       /\ writes[p] # <<>>
       /\ ibuf2[p] = inv.start2[p]
       /\ out[p][4] = ibuf1[p][4]
       /\ out[p][4] # ibuf2[p][4]

\* C7: in every state between the start and the end of an invocation the
\* pixels of both input buffers equal their contents at the start.
C7_InputsUnchanged ==
  inv.phase = "running" => (ibuf1 = inv.start1 /\ ibuf2 = inv.start2)

\* The slice whose lines contain pixel p.
SliceOf(p) ==
  CHOOSE s \in DOMAIN task :
    p \div Width \in task[s].start_line..(task[s].start_line + task[s].total_lines - 1)

\* C8: over any partition of the lines into slices, every output pixel is
\* written exactly once during the invocation, and only by the slice whose
\* lines contain it.
C8_WrittenOnce ==
  /\ inv.phase = "running" =>
       \A p \in PixelIndex :
         /\ Len(writes[p]) <= 1
         /\ \A k \in 1..Len(writes[p]) : writes[p][k] = SliceOf(p)
  /\ inv.phase = "done" =>
       \A p \in PixelIndex : writes[p] = <<SliceOf(p)>>


(***************************************************************************)
(* Gaussian blur.  GaussianBlurVars is [size_x, size_y].  RE_filter_value  *)
(* (R_FILTER_GAUSS) is a positive even function; it is needed at the       *)
(* offsets 0 and +-1 only and stands there for 0.2493 and 0.0028.          *)
(***************************************************************************)
RE_filter_value(x) == IF x = Zero THEN Rat(1, 4) ELSE Rat(1, 400)

RECURSIVE SumSeq(_)
SumSeq(q) == IF q = <<>> THEN Zero ELSE RAdd(q[1], SumSeq(Tail(q)))

\* gausstab[k] of the source is make_gaussian_blur_kernel(rad, size)[k + 1].
make_gaussian_blur_kernel(rad, size) ==
  LET n == 2 * size + 1
      fac == IF RLt(Zero, rad) THEN RInv(rad) ELSE Zero
      val == [k \in 1..n |-> RE_filter_value(RMul(F(k - 1 - size), fac))]
      sum == RInv(SumSeq(val))
  IN  [k \in 1..n |-> RMul(val[k], sum)]

\* The taps of one output pixel that the loop does not skip, in loop
\* order: <<index into rect in pixels, weight>>.
gaussian_taps_x(data, start_line, x, frame_width, i, j) ==
  LET size_x == FloatToInt(RAdd(data.size_x, Half))
      gausstab_x == make_gaussian_blur_kernel(data.size_x, size_x)
      all == [k \in 1..(2 * size_x + 1) |-> j - size_x + k - 1]
      kept == SelectSeq(all, LAMBDA current_x : ~(current_x < 0 \/ current_x >= frame_width))
  IN  [k \in 1..Len(kept) |->
         << (i + start_line) * x + kept[k], gausstab_x[kept[k] - j + size_x + 1] >>]

gaussian_taps_y(data, start_line, x, frame_height, i, j) ==
  LET size_y == FloatToInt(RAdd(data.size_y, Half))
      gausstab_y == make_gaussian_blur_kernel(data.size_y, size_y)
      all == [k \in 1..(2 * size_y + 1) |-> i - size_y + k - 1]
      kept == SelectSeq(all, LAMBDA current_y :
                ~(current_y < -start_line \/ current_y + start_line >= frame_height))
  IN  [k \in 1..Len(kept) |->
         << (kept[k] + start_line) * x + j, gausstab_y[kept[k] - i + size_y + 1] >>]

\* Variant of accum_weight that takes the weight of the whole kernel.
accum_weight_kernel(taps) == One

\* accum_weight after the tap loop.
accum_weight(taps) == SumSeq([k \in 1..Len(taps) |-> taps[k][2]])

\* accum[c] after the tap loop; rect holds float values.
accum(taps, rect, c) == SumSeq([k \in 1..Len(taps) |-> RMul(rect[taps[k][1]][c], taps[k][2])])

\* out[out_index + c] = accum[c] * (1.0f / accum_weight), stored as uchar
\* in the byte functions.
gaussian_pixel_byte(taps, rect) ==
  LET inv_accum_weight == RInv(accum_weight(taps))
      frect == [q \in DOMAIN rect |-> AsFloat(rect[q])]
  IN  [c \in 1..4 |-> Uchar(FloatToInt(RMul(accum(taps, frect, c), inv_accum_weight)))]

gaussian_pixel_float(taps, rect) ==
  LET inv_accum_weight == RInv(accum_weight(taps))
  IN  [c \in 1..4 |-> RMul(accum(taps, rect, c), inv_accum_weight)]

\* The pixel (j, i) of the slice as the four functions write it.
do_gaussian_blur_effect_byte_x(data, start_line, x, frame_width, rect, i, j) ==
  gaussian_pixel_byte(gaussian_taps_x(data, start_line, x, frame_width, i, j), rect)

do_gaussian_blur_effect_byte_y(data, start_line, x, frame_height, rect, i, j) ==
  gaussian_pixel_byte(gaussian_taps_y(data, start_line, x, frame_height, i, j), rect)

do_gaussian_blur_effect_float_x(data, start_line, x, frame_width, rect, i, j) ==
  gaussian_pixel_float(gaussian_taps_x(data, start_line, x, frame_width, i, j), rect)

do_gaussian_blur_effect_float_y(data, start_line, x, frame_height, rect, i, j) ==
  gaussian_pixel_float(gaussian_taps_y(data, start_line, x, frame_height, i, j), rect)

(***************************************************************************)
(* Glow blur: glow_blur_bitmap on float4 buffers with a filter of          *)
(* half-width 1, whose only exponential is exp(0).                         *)
(***************************************************************************)
glow_filter(halfWidth) ==
  LET weight == One
      raw == [ix \in 0..(2 * halfWidth - 1) |-> weight]
      fval == SumSeq([k \in 1..(2 * halfWidth) |-> raw[k - 1]])
  IN  [ix \in 0..(2 * halfWidth - 1) |-> RDiv(raw[ix], fval)]

\* Blur the rows: temp[x + y * width].
glow_blur_row(map, width, halfWidth, x, y) ==
  LET filter == glow_filter(halfWidth)
      xmin == max_ii(x - halfWidth, 0)
      xmax == min_ii(x + halfWidth, width)
  IN  [c \in 1..4 |->
         SumSeq([k \in 1..(xmax - xmin) |->
                   RMul(map[(xmin + k - 1) + y * width][c],
                        filter[(xmin - x) + halfWidth + k - 1])])]

\* Blur the columns: map[x + y * width]; src is <<>> for nullptr.
glow_blur_column(src, temp, width, height, halfWidth, x, y) ==
  LET filter == glow_filter(halfWidth)
      ymin == max_ii(y - halfWidth, 0)
      ymax == min_ii(y + halfWidth, height)
      curColor == [c \in 1..4 |->
                     SumSeq([k \in 1..(ymax - ymin) |->
                               RMul(temp[x + (ymin + k - 1) * width][c],
                                    filter[(ymin - y) + halfWidth + k - 1])])]
  IN  IF src # <<>>
      THEN [c \in 1..4 |-> RMin(One, RAdd(src[x + y * width][c], curColor[c]))]
      ELSE curColor

(***************************************************************************)
(* The two-pass effects: do_gaussian_blur_effect (x pass, then y pass on   *)
(* the output of the x pass) and glow_blur_bitmap (rows of map into temp,  *)
(* then columns of temp into map).  ibuf1 is the buffer the running pass   *)
(* reads, out the buffer it writes, ibuf2 the src of glow_blur_bitmap.     *)
(* A task is named <<pass, first line or column>>.                         *)
(***************************************************************************)
\* The partitions of 0 .. n - 1 into contiguous ranges, each named by its start.
Ranges(n) ==
  { LET bounds == {0, n} \cup cuts
    IN  [s \in bounds \ {n} |->
           [ start |-> s,
             total |-> (CHOOSE b \in bounds :
                          /\ b > s
                          /\ \A c \in bounds : c > s => b <= c) - s ]] :
    cuts \in SUBSET (1..(n - 1)) }

GaussianBlurVars == [ size_x : {Zero, One}, size_y : {Zero, One} ]

GlowBlurArgs == { [halfWidth |-> 1] }

BlurImages(isFloat) == { Uniform(Palette(isFloat)[4]), Varied(isFloat, 0) }

BlurStart(kind, isFloat, data, img, src, ranges1, ranges2) ==
  /\ inv.phase = "idle"
  /\ inv' = [ phase |-> "pass1", type |-> kind, isFloat |-> isFloat, data |-> data,
              start1 |-> img, pass1out |-> <<>> ]
  /\ ibuf1' = img
  /\ ibuf2' = src
  /\ out' = Uniform(ZeroPixel(isFloat))
  /\ task' = [ id \in ({1} \X DOMAIN ranges1) \cup ({2} \X DOMAIN ranges2) |->
                 LET r == IF id[1] = 1 THEN ranges1[id[2]] ELSE ranges2[id[2]]
                 IN  [ pass |-> id[1], start |-> r.start, total |-> r.total, pos |-> 0 ] ]
  /\ writes' = [p \in PixelIndex |-> <<>>]
  /\ UNCHANGED <<pixelVars, stripVars>>

\* blur_isolate_highlights on a whole image.
blur_isolate_highlights(in, threshold, boost, clamp) ==
  [ index \in PixelIndex |->
      LET intensity == RSub(RAdd(RAdd(in[index][1], in[index][2]), in[index][3]), threshold)
      IN  IF RLt(Zero, intensity)
          THEN [c \in 1..4 |-> RMin(clamp, RMul(in[index][c], RMul(boost, intensity)))]
          ELSE <<Zero, Zero, Zero, Zero>> ]

\* The glow strips run: what init_glow_effect leaves, with the blur
\* distance, the no-composite option and the render size (percent) varied so
\* that blur is 0, or the half width is 0, or the half width is 1.
GlowCalls ==
  LET d == [ fMini |-> Rat(1, 4), fClamp |-> One, fBoost |-> Half,
             dDist |-> F(3), dQuality |-> 3, bNoComp |-> 0 ]
  IN  { [ glow |-> [d EXCEPT !.dDist = c[1], !.bNoComp = b], render_size |-> c[2],
          fac |-> One ] :
          c \in { <<Zero, 100>>, <<Half, 25>>, <<Half, 50>> }, b \in {0, 1} }

\* do_glow_effect_float: the highlights are isolated into outbuf, then
\* glow_blur_bitmap either returns at once or starts its row pass.
GlowStart(c, inbuf, ranges1, ranges2) ==
  LET glow == c.glow
      map == blur_isolate_highlights(inbuf, RMul(glow.fMini, F(3)),
                                     RMul(glow.fBoost, c.fac), glow.fClamp)
      blur == RMul(glow.dDist, Rat(c.render_size, 100))
      halfWidth == FloatToInt(RMul(F(glow.dQuality + 1), blur))
      returns == RLe(blur, Zero) \/ halfWidth = 0
  IN  /\ inv.phase = "idle"
      /\ inv' = [ phase |-> IF returns THEN "done" ELSE "pass1", type |-> "SEQ_TYPE_GLOW",
                  isFloat |-> TRUE,
                  data |-> [halfWidth |-> halfWidth, blur |-> blur, glow |-> glow],
                  start1 |-> map, pass1out |-> <<>> ]
      /\ ibuf1' = map
      /\ ibuf2' = IF glow.bNoComp # 0 THEN <<>> ELSE inbuf
      /\ out' = IF returns THEN map ELSE Uniform(ZeroPixel(TRUE))
      /\ task' = IF returns THEN <<>>
                 ELSE [ id \in ({1} \X DOMAIN ranges1) \cup ({2} \X DOMAIN ranges2) |->
                          LET r == IF id[1] = 1 THEN ranges1[id[2]] ELSE ranges2[id[2]]
                          IN  [ pass |-> id[1], start |-> r.start, total |-> r.total,
                                pos |-> 0 ] ]
      /\ writes' = [p \in PixelIndex |-> <<>>]
      /\ UNCHANGED <<pixelVars, stripVars>>

\* The second pass of glow_blur_bitmap runs over ranges of columns.
BlurByColumns(id) == inv.type = "SEQ_TYPE_GLOW" /\ task[id].pass = 2

BlurTaskLen(id) == task[id].total * (IF BlurByColumns(id) THEN Height ELSE Width)

BlurTaskDone(id) == task[id].pos = BlurTaskLen(id)

\* Frame coordinates <<x, y>> of the pixel task id is at.
BlurTaskXY(id) ==
  IF BlurByColumns(id)
  THEN << task[id].start + task[id].pos \div Height, task[id].pos % Height >>
  ELSE << task[id].pos % Width, task[id].start + task[id].pos \div Width >>

\* The pixel a task of pass 1 or 2 writes at <<x, y>>, reading rect.
BlurPixel(id, rect, x, y) ==
  LET start_line == task[id].start
      i == y - start_line
  IN  IF inv.type = "SEQ_TYPE_GLOW"
      THEN IF task[id].pass = 1
           THEN glow_blur_row(rect, Width, inv.data.halfWidth, x, y)
           ELSE glow_blur_column(ibuf2, rect, Width, Height, inv.data.halfWidth, x, y)
      ELSE IF task[id].pass = 1
           THEN IF inv.isFloat
                THEN do_gaussian_blur_effect_float_x(inv.data, start_line, Width, Width, rect, i, x)
                ELSE do_gaussian_blur_effect_byte_x(inv.data, start_line, Width, Width, rect, i, x)
           ELSE IF inv.isFloat
                THEN do_gaussian_blur_effect_float_y(inv.data, start_line, Width, Height, rect, i, x)
                ELSE do_gaussian_blur_effect_byte_y(inv.data, start_line, Width, Height, rect, i, x)

\* One iteration of the pixel loop of a task of the running pass.
BlurStep(id) ==
  /\ inv.phase \in {"pass1", "pass2"}
  /\ task[id].pass = 1 \/ inv.phase = "pass2"
  /\ ~BlurTaskDone(id)
  /\ LET xy == BlurTaskXY(id)
         p == xy[1] + xy[2] * Width
     IN  /\ out' = [out EXCEPT ![p] = BlurPixel(id, ibuf1, xy[1], xy[2])]
         /\ writes' = [writes EXCEPT ![p] = Append(@, task[id].pass)]
  /\ task' = [task EXCEPT ![id].pos = @ + 1]
  /\ UNCHANGED <<inv, ibuf1, ibuf2, pixelVars, stripVars>>

\* IMB_processor_apply_threaded and threading::parallel_for return when
\* every task they started has returned.
Pass1Joined == \A id \in DOMAIN task : task[id].pass = 1 => BlurTaskDone(id)

\* Variant of Pass2Input: the second pass is handed the buffer the first pass read.
Pass2Input_first == ibuf1

\* do_gaussian_blur_effect: ibuf1 = out; init_data.ibuf = ibuf1.
\* glow_blur_bitmap: the column pass reads temp.
Pass2Input == out

\* do_gaussian_blur_effect: out = prepare_effect_imbufs(...).
\* glow_blur_bitmap: the column pass writes map.
Pass2Output == IF inv.type = "SEQ_TYPE_GLOW" THEN ibuf1 ELSE Uniform(ZeroPixel(inv.isFloat))

\* The first pass has returned; the second pass is started.
BlurSecondPass ==
  /\ inv.phase = "pass1"
  /\ Pass1Joined
  /\ inv' = [inv EXCEPT !.phase = "pass2", !.pass1out = out]
  /\ ibuf1' = Pass2Input
  /\ out' = Pass2Output
  /\ UNCHANGED <<ibuf2, task, writes, pixelVars, stripVars>>

\* The second pass has returned; do_gaussian_blur_effect frees the
\* intermediate buffer.
BlurFinish ==
  /\ inv.phase = "pass2"
  /\ \A id \in DOMAIN task : BlurTaskDone(id)
  /\ inv' = [inv EXCEPT !.phase = "done"]
  /\ ibuf1' = IF inv.type = "SEQ_TYPE_GLOW" THEN ibuf1 ELSE <<>>
  /\ UNCHANGED <<ibuf2, out, task, writes, pixelVars, stripVars>>

BlurNext ==
  \/ \E isFloat \in BOOLEAN, data \in GaussianBlurVars :
       \E img \in BlurImages(isFloat), ranges1 \in Ranges(Height), ranges2 \in Ranges(Height) :
         BlurStart("SEQ_TYPE_GAUSSIAN_BLUR", isFloat, data, img, <<>>, ranges1, ranges2)
  \/ \E data \in GlowBlurArgs, src \in {<<>>, Varied(TRUE, 1)} :
       \E ranges1 \in Ranges(Height), ranges2 \in Ranges(Width) :
         BlurStart("SEQ_TYPE_GLOW", TRUE, data, Varied(TRUE, 0), src, ranges1, ranges2)
  \/ \E c \in GlowCalls, inbuf \in BlurImages(TRUE) :
       \E ranges1 \in Ranges(Height), ranges2 \in Ranges(Width) :
         GlowStart(c, inbuf, ranges1, ranges2)
  \/ \E id \in DOMAIN task : BlurStep(id)
  \/ BlurSecondPass
  \/ BlurFinish

BlurSpec == Init /\ [][BlurNext]_vars

(***************************************************************************)
(* Properties of the two-pass effects, checked under BlurSpec.             *)
(***************************************************************************)
InGaussian == inv.phase \in {"pass1", "pass2", "done"} /\ inv.type = "SEQ_TYPE_GAUSSIAN_BLUR"

\* The pass that wrote the current content of the output pixel p, or 0.
WrittenBy(p) ==
  IF inv.phase = "pass1" THEN (IF 1 \in {writes[p][k] : k \in 1..Len(writes[p])} THEN 1 ELSE 0)
  ELSE (IF 2 \in {writes[p][k] : k \in 1..Len(writes[p])} THEN 2 ELSE 0)

\* The weighted mean of channel c of rect over the kernel taps around frame
\* coordinate <<x, y>> whose coordinate along the pass lies in the frame.
InFrameMean(pass, rect, x, y, c) ==
  LET rad == IF pass = 1 THEN inv.data.size_x ELSE inv.data.size_y
      size == FloatToInt(RAdd(rad, Half))
      kernel == make_gaussian_blur_kernel(rad, size)
      centre == IF pass = 1 THEN x ELSE y
      frame == IF pass = 1 THEN Width ELSE Height
      lo == max_ii(0, centre - size)
      hi == min_ii(frame - 1, centre + size)
      at(a) == IF pass = 1 THEN rect[y * Width + a] ELSE rect[a * Width + x]
      value(a) == IF inv.isFloat THEN at(a)[c] ELSE F(at(a)[c])
      num == SumSeq([k \in 1..(hi - lo + 1) |->
                       RMul(value(lo + k - 1), kernel[lo + k - 1 - centre + size + 1])])
      den == SumSeq([k \in 1..(hi - lo + 1) |-> kernel[lo + k - 1 - centre + size + 1]])
  IN  RDiv(num, den)

\* C11: in both gaussian passes and for every slice start line an output
\* pixel is the weighted sum over the taps inside the frame divided by the
\* sum of the weights of exactly those taps (cut to an integer in the byte
\* path), so a uniform input gives that colour at every pixel, edges
\* included.
C11_GaussianNormalized ==
  InGaussian =>
    \A p \in PixelIndex :
      WrittenBy(p) # 0 =>
        /\ inv.phase # "done" =>
             \A c \in 1..4 :
               LET mean == InFrameMean(WrittenBy(p), ibuf1, p % Width, p \div Width, c)
               IN  out[p][c] = IF inv.isFloat THEN mean ELSE FloatToInt(mean)
        /\ (\E colour \in {inv.start1[q] : q \in PixelIndex} : inv.start1 = Uniform(colour)) =>
             out[p] = inv.start1[p]

C11_Witness ==
  /\ InGaussian
  /\ inv.phase = "done"
  /\ inv.data = [size_x |-> One, size_y |-> One]
  /\ ~inv.isFloat
  /\ inv.start1 = Uniform(<<255, 85, 51, 85>>)
  /\ out = inv.start1
  /\ <<2, 1>> \in DOMAIN task

nullptr == 0

SEQ_FONT_NOT_LOADED == -2

MEM_callocN(m, shape, data) == Append(m, [alloc |-> TRUE, shape |-> shape, data |-> data])

\* The copy is a new block with the same bytes: pointer fields are copied as pointers.
MEM_dupallocN(m, p) == Append(m, [m[p] EXCEPT !.alloc = TRUE])

MEM_freeN(m, p) == [m EXCEPT ![p].alloc = FALSE]

\* (T *)seq->effectdata: the block at p is read as a T from here on.
Cast(w, p, T) ==
  [w EXCEPT !.log.casts = @ \cup {[as |-> T, shape |-> w.mem[p].shape]}]

\* The calling thread wrote the named field of the strip or of its effect data.
Wrote(w, field) == [w EXCEPT !.log.writers = @ \cup {<<w.tid, field>>}]

\* VFont 1 has a packed file, VFont 2 names a file on disk.
VFonts == {1, 2}

\* The contents each init function gives the fresh record, and the type
\* whose sizeof it passes to MEM_callocN.
init_effectdata(fn) ==
  CASE fn = "init_colormix_effect" ->
         [ shape |-> "ColorMixVars",
           data |-> [blend_effect |-> "SEQ_TYPE_OVERLAY", factor |-> One] ]
    [] fn = "init_wipe_effect" ->
         [ shape |-> "WipeVars",
           data |-> [edgeWidth |-> Zero, angle |-> Zero, forward |-> 0, wipetype |-> 0] ]
    [] fn = "init_transform_effect" ->
         [ shape |-> "TransformVars",
           data |-> [ ScalexIni |-> One, ScaleyIni |-> One, xIni |-> Zero, yIni |-> Zero,
                      rotIni |-> Zero, interpolation |-> 1, percent |-> 1,
                      uniform_scale |-> 0 ] ]
    [] fn = "init_glow_effect" ->
         [ shape |-> "GlowVars",
           data |-> [ fMini |-> Rat(1, 4), fClamp |-> One, fBoost |-> Half,
                      dDist |-> F(3), dQuality |-> 3, bNoComp |-> 0 ] ]
    [] fn = "init_solid_color" ->
         [ shape |-> "SolidColorVars", data |-> [col |-> <<Half, Half, Half>>] ]
    [] fn = "init_speed_effect" ->
         [ shape |-> "SpeedControlVars",
           data |-> [ speed_control_type |-> "SEQ_SPEED_STRETCH", speed_fader |-> One,
                      speed_fader_length |-> Zero, speed_fader_frame_number |-> Zero,
                      flags |-> FALSE, frameMap |-> nullptr ] ]
    [] fn = "init_gaussian_blur_effect" ->
         [ shape |-> "WipeVars",
           data |-> [edgeWidth |-> Zero, angle |-> Zero, forward |-> 0, wipetype |-> 0] ]
    [] fn = "init_text_effect" ->
         [ shape |-> "TextVars",
           data |-> [ text_font |-> nullptr, text_blf_id |-> -1, text_size |-> F(60),
                      text |-> "Text" ] ]

\* sh.init(seq): every init function that owns effect data frees the old
\* record, allocates the new one and fills it in.
sh_init(w, s) ==
  LET fn == get_sequence_effect_impl(w.seq[s].type).init
      old == w.seq[s].effectdata
      m1 == IF old # nullptr THEN MEM_freeN(w.mem, old) ELSE w.mem
      rec == init_effectdata(fn)
  IN  IF fn \in {"init_noop", "init_alpha_over_or_under"} THEN w
      ELSE [w EXCEPT !.mem = MEM_callocN(m1, rec.shape, rec.data),
                     !.seq[s].effectdata = Len(m1) + 1]

\* A block read through the type T it is cast to.  GaussianBlurVars laid
\* over a WipeVars block reads size_x in the bytes of edgeWidth and size_y
\* in the bytes of angle.
read_as(block, T) ==
  IF T = "GaussianBlurVars" /\ block.shape = "WipeVars"
  THEN [size_x |-> block.data.edgeWidth, size_y |-> block.data.angle]
  ELSE block.data

\* BLF_load_mem / BLF_load: the font of a name is loaded once and counted.
BLF_load(w, vfont) == [w EXCEPT !.fonts.ref[vfont] = @ + 1]

BLF_unload_id(w, id) ==
  [w EXCEPT !.fonts.ref[id] = IF @ > 0 THEN @ - 1 ELSE 0]

SEQ_effect_text_font_unload(w, data, do_id_user) ==
  IF data = nullptr THEN w
  ELSE LET d == w.mem[data].data
           w1 == IF do_id_user /\ d.text_font # nullptr
                 THEN [w EXCEPT !.fonts.us[d.text_font] = IF @ > 0 THEN @ - 1 ELSE 0,
                                !.mem[data].data.text_font = nullptr]
                 ELSE w
       IN  IF d.text_blf_id >= 0 THEN BLF_unload_id(w1, d.text_blf_id) ELSE w1

SEQ_effect_text_font_load(w, data, do_id_user) ==
  LET vfont == w.mem[data].data.text_font
      w1 == IF do_id_user THEN [w EXCEPT !.fonts.us[vfont] = @ + 1] ELSE w
  IN  IF vfont = nullptr THEN w
      ELSE IF vfont = 1 \/ w.main
           THEN [Wrote(BLF_load(w1, vfont), "text_blf_id") EXCEPT
                   !.mem[data].data.text_blf_id = vfont]
           ELSE w1

load_speed_effect(w, s) ==
  LET v == w.seq[s].effectdata
  IN  [Wrote(Cast(w, v, "SpeedControlVars"), "frameMap") EXCEPT
         !.mem[v].data.frameMap = nullptr]

load_text_effect(w, s) ==
  LET data == w.seq[s].effectdata
  IN  SEQ_effect_text_font_load(Cast(w, data, "TextVars"), data, FALSE)

\* rval.load(seq) for the handle rval of seq_type.
sh_load(w, s, seq_type) ==
  LET fn == get_sequence_effect_impl(seq_type).load
      w1 == [w EXCEPT !.log.loads =
                        Append(@, [strip |-> s, of |-> seq_type, fn |-> fn, tid |-> w.tid])]
  IN  CASE fn = "load_speed_effect" -> load_speed_effect(w1, s)
        [] fn = "load_text_effect" -> load_text_effect(w1, s)
        [] OTHER -> w1

\* MEM_SAFE_FREE(seq->effectdata), the whole of free_effect_default,
\* free_wipe_effect, free_transform_effect, free_glow_effect,
\* free_solid_color and free_gaussian_blur_effect.
free_effect_default(w, s) ==
  LET p == w.seq[s].effectdata
  IN  IF p = nullptr THEN w
      ELSE [w EXCEPT !.mem = MEM_freeN(@, p), !.seq[s].effectdata = nullptr]

free_speed_effect(w, s) ==
  LET v == w.seq[s].effectdata
      w0 == Cast(w, v, "SpeedControlVars")
      frameMap == w.mem[v].data.frameMap
  IN  free_effect_default(
        IF frameMap # nullptr THEN [w0 EXCEPT !.mem = MEM_freeN(@, frameMap)] ELSE w0, s)

free_text_effect(w, s, do_id_user) ==
  LET data == w.seq[s].effectdata
      w1 == SEQ_effect_text_font_unload(
              IF data = nullptr THEN w ELSE Cast(w, data, "TextVars"), data, do_id_user)
  IN  IF data # nullptr
      THEN [w1 EXCEPT !.mem = MEM_freeN(@, data), !.seq[s].effectdata = nullptr]
      ELSE w1

\* sh.free(seq, do_id_user)
sh_free(w, s, do_id_user) ==
  LET fn == get_sequence_effect_impl(w.seq[s].type).free
  IN  CASE fn = "free_noop" -> w
        [] fn = "free_speed_effect" -> free_speed_effect(w, s)
        [] fn = "free_text_effect" -> free_text_effect(w, s, do_id_user)
        [] OTHER -> free_effect_default(w, s)

\* dst->effectdata = MEM_dupallocN(src->effectdata), the whole of
\* copy_effect_default, copy_wipe_effect, copy_transform_effect,
\* copy_glow_effect, copy_solid_color and copy_gaussian_blur_effect.
copy_effect_default(w, dst, src) ==
  [w EXCEPT !.mem = MEM_dupallocN(@, w.seq[src].effectdata),
            !.seq[dst].effectdata = Len(w.mem) + 1]

copy_speed_effect_shared(w, dst, src) == copy_effect_default(w, dst, src)

copy_speed_effect(w, dst, src) ==
  LET w1 == copy_effect_default(w, dst, src)
      v == w1.seq[dst].effectdata
  IN  [Cast(w1, v, "SpeedControlVars") EXCEPT !.mem[v].data.frameMap = nullptr]

\* no_user_refcount: flag & LIB_ID_CREATE_NO_USER_REFCOUNT
copy_text_effect(w, dst, src, no_user_refcount) ==
  LET w1 == copy_effect_default(w, dst, src)
      data == w1.seq[dst].effectdata
  IN  SEQ_effect_text_font_load(
        [Cast(w1, data, "TextVars") EXCEPT !.mem[data].data.text_blf_id = -1],
        data, ~no_user_refcount)

\* sh.copy(dst, src, flag), called when sh.copy is set.
sh_copy(w, dst, src, no_user_refcount) ==
  LET fn == get_sequence_effect_impl(w.seq[src].type).copy
  IN  CASE fn = "copy_speed_effect" -> copy_speed_effect(w, dst, src)
        [] fn = "copy_text_effect" -> copy_text_effect(w, dst, src, no_user_refcount)
        [] OTHER -> copy_effect_default(w, dst, src)

(***************************************************************************)
(* Public API: handles and input counts.                                   *)
(***************************************************************************)
\* SeqEffectHandle rval = {false, false, nullptr}
EmptyHandle ==
  [ f \in DOMAIN DefaultHandle |->
      IF f \in {"multithreaded", "supports_mask"} THEN FALSE ELSE "nullptr" ]

\* The strip types without the SEQ_TYPE_EFFECT bit.
NonEffectTypes ==
  { "SEQ_TYPE_IMAGE", "SEQ_TYPE_META", "SEQ_TYPE_SCENE", "SEQ_TYPE_MOVIE",
    "SEQ_TYPE_SOUND_RAM", "SEQ_TYPE_MOVIECLIP", "SEQ_TYPE_MASK" }

SEQ_effect_handle_get_keep(w, s) ==
  LET sq == w.seq[s]
      rval == get_sequence_effect_impl(sq.type)
  IN  IF sq.type \notin NonEffectTypes
      THEN [ w |-> IF sq.flag THEN sh_load(w, s, sq.type) ELSE w, rval |-> rval ]
      ELSE [ w |-> w, rval |-> EmptyHandle ]

SEQ_effect_handle_get(w, s) ==
  LET sq == w.seq[s]
      rval == get_sequence_effect_impl(sq.type)
  IN  IF sq.type \notin NonEffectTypes
      THEN [ w |-> IF sq.flag
                   THEN [Wrote(sh_load(w, s, sq.type), "flag") EXCEPT !.seq[s].flag = FALSE]
                   ELSE w,
             rval |-> rval ]
      ELSE [ w |-> w, rval |-> EmptyHandle ]

\* blend_mode is "0" for no blend mode, else the type of the blend effect.
seq_effect_get_sequence_blend(w, s) ==
  LET sq == w.seq[s]
      w1 == IF sq.flag THEN sh_load(w, s, sq.type) ELSE w
      rval == get_sequence_effect_impl(sq.blend_mode)
  IN  IF sq.blend_mode # "0"
      THEN [ w |-> IF w1.seq[s].flag
                   THEN [Wrote(sh_load(w1, s, sq.blend_mode), "flag") EXCEPT
                           !.seq[s].flag = FALSE]
                   ELSE w1,
             rval |-> rval ]
      ELSE [ w |-> w, rval |-> EmptyHandle ]

num_inputs(fn) ==
  CASE fn \in {"num_inputs_default", "num_inputs_wipe"} -> 2
    [] fn \in { "num_inputs_transform", "num_inputs_glow", "num_inputs_speed",
                "num_inputs_gaussian_blur" } -> 1
    [] fn \in { "num_inputs_color", "num_inputs_multicam", "num_inputs_adjustment",
                "num_inputs_text" } -> 0

SEQ_effect_get_num_inputs_count(seq_type) ==
  num_inputs(get_sequence_effect_impl(seq_type).num_inputs)

SEQ_effect_get_num_inputs(seq_type) ==
  LET rval == get_sequence_effect_impl(seq_type)
      count == num_inputs(rval.num_inputs)
  IN  IF \/ rval.execute # "nullptr"
         \/ (rval.execute_slice # "nullptr" /\ rval.init_execution # "nullptr")
      THEN count
      ELSE 0

(***************************************************************************)
(* Speed effect.  A strip carries len, the distance of its handles         *)
(* (SEQ_time_right_handle_frame_get - SEQ_time_left_handle_frame_get),     *)
(* seq1, its source strip with its length (SEQ_time_strip_length_get) and  *)
(* start offset, and fcu, its speed_factor curve: fcu.v[i] is              *)
(* evaluate_fcurve at the left handle + i.                                 *)
(***************************************************************************)
CLAMP(a, b, c) == IF RLt(a, b) THEN b ELSE IF RLt(c, a) THEN c ELSE a

ceilf(p) == Rat(-((-p[1]) \div p[2]), 1)

frame_map_step_unclamped(target_frame, value, target_frame_max) ==
  RAdd(target_frame, value)

\* One round of the loop: the next target_frame.
frame_map_step(target_frame, value, target_frame_max) ==
  CLAMP(RAdd(target_frame, value), Zero, F(target_frame_max))

RECURSIVE frame_map_fill(_, _, _, _, _)
\* frameMap[frame_index .. effect_strip_length - 1]
frame_map_fill(fcu, target_frame_max, effect_strip_length, frame_index, target_frame) ==
  IF frame_index >= effect_strip_length THEN <<>>
  ELSE LET t == frame_map_step(target_frame, fcu.v[frame_index], target_frame_max)
       IN  <<t>> \o frame_map_fill(fcu, target_frame_max, effect_strip_length,
                                   frame_index + 1, t)

seq_effect_speed_rebuild_map(w, s) ==
  LET sq == w.seq[s]
      effect_strip_length == sq.len
      v == sq.effectdata
      w0 == Cast(w, v, "SpeedControlVars")
      old == w.mem[v].data.frameMap
      m1 == IF old # nullptr THEN MEM_freeN(w0.mem, old) ELSE w0.mem
      map == <<Zero>> \o frame_map_fill(sq.fcu, sq.seq1.len, effect_strip_length, 1, Zero)
  IN  IF (~sq.seq1.present) \/ effect_strip_length < 1 THEN w
      ELSE IF ~sq.fcu.present THEN w
      ELSE [Wrote(w0, "frameMap") EXCEPT
              !.mem = [MEM_callocN(m1, "float[]", [v |-> map]) EXCEPT
                         ![v].data.frameMap = Len(m1) + 1]]

\* Variant of seq_effect_speed_frame_map_ensure that never builds the map.
seq_effect_speed_frame_map_ensure_never(w, s) ==
  Cast(w, w.seq[s].effectdata, "SpeedControlVars")

seq_effect_speed_frame_map_ensure(w, s) ==
  LET v == w.seq[s].effectdata
  IN  IF w.mem[v].data.frameMap # nullptr THEN Cast(w, v, "SpeedControlVars")
      ELSE seq_effect_speed_rebuild_map(Cast(w, v, "SpeedControlVars"), s)

\* The switch on speed_control_type: target_frame before it is clamped.
\* w is the world after the frame map was ensured.
speed_target_frame_switch(w, s, frame_index) ==
  LET sq == w.seq[s]
      d == w.mem[sq.effectdata].data
      source == sq.seq1
  IN  CASE d.speed_control_type = "SEQ_SPEED_STRETCH" ->
             LET target_content_length == RSub(F(source.len), F(source.startofs))
                 speed_effetct_length == F(sq.len)
                 ratio == RDiv(F(frame_index), speed_effetct_length)
             IN  RMul(target_content_length, ratio)
        [] d.speed_control_type = "SEQ_SPEED_MULTIPLY" ->
             IF sq.fcu.present
             THEN w.mem[d.frameMap].data.v[frame_index + 1]
             ELSE RMul(F(frame_index), d.speed_fader)
        [] d.speed_control_type = "SEQ_SPEED_LENGTH" ->
             RMul(F(source.len), RDiv(d.speed_fader_length, F(100)))
        [] d.speed_control_type = "SEQ_SPEED_FRAME_NUMBER" ->
             d.speed_fader_frame_number

speed_target_frame_unclamped(w, s, frame_index) ==
  speed_target_frame_switch(w, s, frame_index)

\* target_frame after CLAMP, before seq_speed->start is added.
speed_target_frame(w, s, frame_index) ==
  CLAMP(speed_target_frame_switch(w, s, frame_index), Zero, F(w.seq[s].seq1.len))

\* s->frameMap[frame_index] reads an entry of an allocated table.
frame_map_readable(w, frameMap, frame_index) ==
  /\ frameMap # nullptr
  /\ w.mem[frameMap].alloc
  /\ frame_index >= 0
  /\ frame_index < Len(w.mem[frameMap].data.v)

\* What a call whose read of the table was undefined returns: no value.
Indeterminate == <<0, 0>>

\* frame_index is round_fl_to_int(SEQ_give_frame_index(scene, seq_speed,
\* timeline_frame)).  The result carries the world the call leaves, the
\* value returned, and target_frame as it was before start was added.
seq_speed_effect_target_frame_get(w, seq_speed, frame_index, input) ==
  LET sq == w.seq[seq_speed]
      w1 == Cast(SEQ_effect_handle_get(w, seq_speed).w, sq.effectdata, "SpeedControlVars")
      s == w1.mem[sq.effectdata].data
      w2 == IF s.speed_control_type = "SEQ_SPEED_MULTIPLY" /\ sq.fcu.present
            THEN seq_effect_speed_frame_map_ensure(w1, seq_speed)
            ELSE w1
      clamped == speed_target_frame(w2, seq_speed, frame_index)
      target_frame == RAdd(clamped, F(sq.start))
  IN  IF ~sq.seq1.present
      THEN [ w |-> w, value |-> Zero, target_frame |-> Zero ]
      ELSE IF /\ s.speed_control_type = "SEQ_SPEED_MULTIPLY"
              /\ sq.fcu.present
              /\ ~frame_map_readable(w2, w2.mem[sq.effectdata].data.frameMap, frame_index)
      THEN [ w |-> w2, value |-> Indeterminate, target_frame |-> Indeterminate ]
      ELSE [ w |-> w2,
             value |-> IF ~s.flags THEN target_frame
                       ELSE IF input = 0 THEN target_frame ELSE ceilf(target_frame),
             target_frame |-> clamped ]

\* The effect of do_speed_effect on the world; the frame it returns is the
\* result of the cross effect or a copy of ibuf1.
do_speed_effect(w, s, frame_index) ==
  LET v == w.mem[w.seq[s].effectdata].data
      w0 == Cast(w, w.seq[s].effectdata, "SpeedControlVars")
  IN  IF v.flags THEN seq_speed_effect_target_frame_get(w0, s, frame_index, 0).w
      ELSE w0

\* The effect of do_text_effect on the world, up to the choice of the font.
do_text_effect(w, s) ==
  LET data == w.seq[s].effectdata
      w0 == Cast(w, data, "TextVars")
  IN  IF w.mem[data].data.text_blf_id = SEQ_FONT_NOT_LOADED
      THEN SEQ_effect_text_font_load(
             [Wrote(w0, "text_blf_id") EXCEPT !.mem[data].data.text_blf_id = -1],
             data, FALSE)
      ELSE w0

early_out_gaussian_blur(w, s) ==
  LET data == read_as(w.mem[w.seq[s].effectdata], "GaussianBlurVars")
  IN  [ w |-> Cast(w, w.seq[s].effectdata, "GaussianBlurVars"),
        value |-> IF data.size_x = Zero /\ data.size_y = Zero
                  THEN "EARLY_USE_INPUT_1" ELSE "EARLY_DO_EFFECT" ]

\* The type each execute function casts seq->effectdata to.
execute_cast(fn) ==
  CASE fn = "do_colormix_effect" -> "ColorMixVars"
    [] fn = "do_wipe_effect" -> "WipeVars"
    [] fn = "do_transform_effect" -> "TransformVars"
    [] fn = "do_glow_effect" -> "GlowVars"
    [] fn = "do_solid_color" -> "SolidColorVars"
    [] fn = "do_gaussian_blur_effect" -> "GaussianBlurVars"

\* The effect on the world of sh.execute or sh.execute_slice of the strip.
sh_execute(w, s, frame_index) ==
  LET sh == get_sequence_effect_impl(w.seq[s].type)
      fn == IF sh.execute # "nullptr" THEN sh.execute ELSE sh.execute_slice
  IN  CASE fn = "do_speed_effect" -> do_speed_effect(w, s, frame_index)
        [] fn = "do_text_effect" -> do_text_effect(w, s)
        [] w.seq[s].effectdata = nullptr -> w
        [] OTHER -> Cast(w, w.seq[s].effectdata, execute_cast(fn))

(***************************************************************************)
(* The life of a strip: it is added or read from a file, its handle is     *)
(* fetched, it is queried, executed, copied and freed.  Calls are          *)
(* sequential here; each action is one call, run to its end.               *)
(***************************************************************************)
NoSource == [present |-> FALSE, len |-> 0, startofs |-> 0]
NoCurve == [present |-> FALSE, v |-> <<>>]

SpeedSources ==
  { NoSource,
    [present |-> TRUE, len |-> 0, startofs |-> 1],
    [present |-> TRUE, len |-> 2, startofs |-> 0],
    [present |-> TRUE, len |-> 3, startofs |-> 1] }

SpeedCurves ==
  { [present |-> TRUE, v |-> c] :
      c \in { <<F(-1), F(2)>>, <<Half, Half>>, <<F(2), F(2)>>, <<F(2), F(-1)>> } }

\* The speed parameters a user can have set: what init_speed_effect left,
\* with the fields of one mode changed.
SpeedControlVars ==
  LET d == init_effectdata("init_speed_effect").data
  IN  { [d EXCEPT !.flags = i] : i \in BOOLEAN }
      \cup { [d EXCEPT !.speed_control_type = "SEQ_SPEED_MULTIPLY", !.speed_fader = f,
                       !.flags = i] : f \in {F(-1), Half, F(2)}, i \in BOOLEAN }
      \cup { [d EXCEPT !.speed_control_type = "SEQ_SPEED_LENGTH", !.speed_fader_length = f,
                       !.flags = i] : f \in {F(-50), F(50), F(150)}, i \in BOOLEAN }
      \cup { [d EXCEPT !.speed_control_type = "SEQ_SPEED_FRAME_NUMBER",
                       !.speed_fader_frame_number = f,
                       !.flags = i] : f \in {F(-1), One, F(7)}, i \in BOOLEAN }

\* The parameter records a strip of the type can hold.
EffectData(seq_type) ==
  LET d == init_effectdata(get_sequence_effect_impl(seq_type).init).data
  IN  CASE seq_type = "SEQ_TYPE_SPEED" -> SpeedControlVars
        [] seq_type = "SEQ_TYPE_TEXT" ->
             { [d EXCEPT !.text_font = f] : f \in {nullptr} \cup VFonts }
        [] seq_type = "SEQ_TYPE_GAUSSIAN_BLUR" ->
             { [d EXCEPT !.edgeWidth = x, !.angle = Zero] : x \in {Zero, One} }
        [] OTHER -> {d}

DataTypes ==
  { "SEQ_TYPE_COLORMIX", "SEQ_TYPE_WIPE", "SEQ_TYPE_GLOW", "SEQ_TYPE_TRANSFORM",
    "SEQ_TYPE_SPEED", "SEQ_TYPE_COLOR", "SEQ_TYPE_GAUSSIAN_BLUR", "SEQ_TYPE_TEXT" }

BlendModeValues == {"0", "SEQ_TYPE_ALPHAOVER"}

\* The speed strips the queries are made on, with the parameters set on them.
SpeedInputs ==
  { [ type |-> "SEQ_TYPE_SPEED", blend_mode |-> "0", seq1 |-> src, start |-> 4, len |-> n,
      fcu |-> NoCurve, data |-> d ] :
      src \in SpeedSources, n \in {1, 3}, d \in SpeedControlVars }
  \cup
  { [ type |-> "SEQ_TYPE_SPEED", blend_mode |-> "0", seq1 |-> src, start |-> 4, len |-> n,
      fcu |-> c, data |-> d ] :
      src \in SpeedSources, n \in {1, 3}, c \in SpeedCurves,
      d \in { x \in SpeedControlVars :
                x.speed_control_type = "SEQ_SPEED_MULTIPLY" /\ x.speed_fader = Half } }

\* The strips whose life is followed.
StripInputs ==
  { st \in SpeedInputs :
      /\ st.seq1 = [present |-> TRUE, len |-> 2, startofs |-> 0]
      /\ st.len = 3
      /\ st.data.speed_control_type = "SEQ_SPEED_MULTIPLY"
      /\ st.data.speed_fader = Half
      /\ st.fcu \in {NoCurve, [present |-> TRUE, v |-> <<F(2), F(-1)>>]} }
  \cup
  UNION { { [ type |-> t, blend_mode |-> b, seq1 |-> NoSource, start |-> 4, len |-> 1,
                fcu |-> NoCurve, data |-> d ] :
                b \in BlendModeValues, d \in EffectData(t) } :
          t \in DataTypes \ {"SEQ_TYPE_SPEED"} }

World(main, tid) ==
  [seq |-> seq, mem |-> mem, fonts |-> fonts, log |-> log, main |-> main, tid |-> tid]

Commit(w) ==
  /\ seq' = w.seq
  /\ mem' = w.mem
  /\ fonts' = w.fonts
  /\ log' = w.log

Alive(s) == s \in DOMAIN seq /\ ~seq[s].freed

\* Only the font loading of a text strip asks whether it runs on the main thread.
MainThread(s) == IF seq[s].type = "SEQ_TYPE_TEXT" THEN BOOLEAN ELSE {TRUE}

\* The number of heap blocks after which no frame map is rebuilt.
MaxHeap == 3

\* A strip is added (init, then the user's parameters) or read from a
\* file: then its 'not loaded' flag is set, and its transient handles are
\* the ones the reader leaves.  marked tells whether the flag was set on
\* the strip when it came to exist; freed, whether its owner freed it.
AddStrip(st, fromFile) ==
  /\ seq = <<>>
  /\ LET sq == [ type |-> st.type, flag |-> fromFile, blend_mode |-> st.blend_mode,
                 seq1 |-> st.seq1, start |-> st.start, len |-> st.len, fcu |-> st.fcu,
                 effectdata |-> nullptr, freed |-> FALSE, marked |-> fromFile ]
         w0 == [World(TRUE, 0) EXCEPT !.seq = <<sq>>]
         w1 == sh_init(w0, 1)
         p == w1.seq[1].effectdata
         w2 == [w1 EXCEPT !.mem[p].data = st.data]
         w3 == IF st.type # "SEQ_TYPE_TEXT" THEN w2
               ELSE IF fromFile
               THEN [w2 EXCEPT !.mem[p].data.text_blf_id = SEQ_FONT_NOT_LOADED,
                               !.fonts.us = IF st.data.text_font = nullptr THEN @
                                            ELSE [@ EXCEPT ![st.data.text_font] = @ + 1]]
               ELSE SEQ_effect_text_font_load(w2, p, TRUE)
     IN  Commit(w3)
  /\ ret' = [op |-> "add"]
  /\ UNCHANGED <<thread, pixelVars, execVars>>

HandleGet(s) ==
  /\ Alive(s)
  /\ thread = <<>>
  /\ \E main \in MainThread(s) :
       LET r == SEQ_effect_handle_get(World(main, 0), s)
       IN  /\ Commit(r.w)
           /\ ret' = [ op |-> "handle_get", strip |-> s, was |-> seq[s].flag,
                       empty |-> (r.rval = EmptyHandle) ]
  /\ UNCHANGED <<thread, pixelVars, execVars>>

BlendGet(s) ==
  /\ Alive(s)
  /\ thread = <<>>
  /\ \E main \in MainThread(s) :
       LET r == seq_effect_get_sequence_blend(World(main, 0), s)
       IN  /\ Commit(r.w)
           /\ ret' = [ op |-> "blend_get", strip |-> s, was |-> seq[s].flag,
                       empty |-> (r.rval = EmptyHandle) ]
  /\ UNCHANGED <<thread, pixelVars, execVars>>

\* The data block of strip s and the blocks it points to, as they are in w.
Reachable(w, s) ==
  LET p == w.seq[s].effectdata
      d == w.mem[p].data
      frameMap == IF w.mem[p].shape = "SpeedControlVars" THEN d.frameMap ELSE nullptr
  IN  [ effectdata |-> w.mem[p],
        frameMap |-> IF frameMap = nullptr THEN [alloc |-> TRUE] ELSE w.mem[frameMap],
        font |-> IF w.mem[p].shape = "TextVars" /\ d.text_blf_id >= 0
                 THEN w.fonts.ref[d.text_blf_id] > 0
                 ELSE TRUE ]

\* The strip is duplicated: the copy starts as a copy of the strip's
\* fields, then the handle's copy function, if it has one, runs.
CopyStrip(no_user_refcount) ==
  /\ Len(seq) = 1
  /\ Alive(1)
  /\ thread = <<>>
  /\ \E main \in MainThread(1) :
       LET w0 == [World(main, 0) EXCEPT
                    !.seq = Append(@, [seq[1] EXCEPT !.marked = seq[1].flag])]
           r == SEQ_effect_handle_get(w0, 1)
       IN  Commit(IF r.rval.copy # "nullptr"
                  THEN sh_copy(r.w, 2, 1, no_user_refcount)
                  ELSE r.w)
  /\ ret' = [op |-> "copy"]
  /\ UNCHANGED <<thread, pixelVars, execVars>>

\* The strip is deleted: its handle's free function runs.
FreeStrip(s, do_id_user) ==
  /\ Alive(s)
  /\ thread = <<>>
  /\ LET r == SEQ_effect_handle_get(World(TRUE, 0), s)
         w1 == sh_free(r.w, s, do_id_user)
         other == 3 - s
     IN  /\ Commit([w1 EXCEPT !.seq[s].freed = TRUE])
         /\ ret' = [ op |-> "free", strip |-> s,
                     other |-> IF Alive(other)
                               THEN <<Reachable(World(TRUE, 0), other)>> ELSE <<>> ]
  /\ UNCHANGED <<thread, pixelVars, execVars>>

\* The renderer fetched the handle of the strip, asked a speed strip for
\* the frame of its input, and calls execute or execute_slice for a frame
\* of the strip.  ret keeps the flag and the effect data the call found.
Execute(s, frame_index) ==
  /\ Alive(s)
  /\ thread = <<>>
  /\ ~seq[s].flag
  /\ frame_index < seq[s].len
  /\ \E main \in MainThread(s) :
       LET w0 == IF seq[s].type = "SEQ_TYPE_SPEED"
                 THEN seq_speed_effect_target_frame_get(World(main, 0), s, frame_index, 0).w
                 ELSE World(main, 0)
       IN  /\ Commit(sh_execute(w0, s, frame_index))
           /\ ret' = [ op |-> "execute", strip |-> s, flag |-> w0.seq[s].flag,
                       effectdata |-> w0.mem[seq[s].effectdata].data ]
  /\ UNCHANGED <<thread, pixelVars, execVars>>

EarlyOut(s) ==
  /\ Alive(s)
  /\ thread = <<>>
  /\ seq[s].type = "SEQ_TYPE_GAUSSIAN_BLUR"
  /\ LET r == early_out_gaussian_blur(World(TRUE, 0), s)
     IN  /\ Commit(r.w)
         /\ ret' = [op |-> "early_out", strip |-> s, value |-> r.value]
  /\ UNCHANGED <<thread, pixelVars, execVars>>

TargetFrame(s, frame_index, input) ==
  /\ Alive(s)
  /\ thread = <<>>
  /\ seq[s].type = "SEQ_TYPE_SPEED"
  /\ frame_index < seq[s].len
  /\ LET r == seq_speed_effect_target_frame_get(World(TRUE, 0), s, frame_index, input)
     IN  /\ Commit(r.w)
         /\ ret' = [ op |-> "target_frame", strip |-> s, frame_index |-> frame_index,
                     input |-> input, value |-> r.value, target_frame |-> r.target_frame ]
  /\ UNCHANGED <<thread, pixelVars, execVars>>

\* The curve or the strip changed: the frame map is rebuilt.
RebuildMap(s) ==
  /\ Alive(s)
  /\ thread = <<>>
  /\ seq[s].type = "SEQ_TYPE_SPEED"
  /\ ~seq[s].flag
  /\ Len(mem) < MaxHeap
  /\ Commit(seq_effect_speed_rebuild_map(World(TRUE, 0), s))
  /\ ret' = [op |-> "rebuild_map", strip |-> s, was |-> mem[seq[s].effectdata].data.frameMap]
  /\ UNCHANGED <<thread, pixelVars, execVars>>

\* Every type the registry lists, and some it does not.
SeqTypes ==
  DataTypes \cup BlendModeTypes \cup NonEffectTypes
  \cup { "SEQ_TYPE_CROSS", "SEQ_TYPE_GAMCROSS", "SEQ_TYPE_ADD", "SEQ_TYPE_SUB",
         "SEQ_TYPE_MUL", "SEQ_TYPE_ALPHAOVER", "SEQ_TYPE_ALPHAUNDER", "SEQ_TYPE_OVERDROP",
         "SEQ_TYPE_MULTICAM", "SEQ_TYPE_ADJUSTMENT" }

GetNumInputs(seq_type) ==
  /\ seq = <<>>
  /\ thread = <<>>
  /\ ret' = [ op |-> "num_inputs", type |-> seq_type,
              value |-> SEQ_effect_get_num_inputs(seq_type) ]
  /\ UNCHANGED <<seq, mem, fonts, log, thread, pixelVars, execVars>>

StripNext ==
  \/ \E st \in StripInputs, fromFile \in BOOLEAN : AddStrip(st, fromFile)
  \/ \E s \in {1, 2} : HandleGet(s)
  \/ \E s \in {1, 2} : BlendGet(s)
  \/ \E no_user_refcount \in BOOLEAN : CopyStrip(no_user_refcount)
  \/ \E s \in {1, 2}, do_id_user \in BOOLEAN : FreeStrip(s, do_id_user)
  \/ \E frame_index \in 0..2 : Execute(1, frame_index)
  \/ EarlyOut(1)
  \/ \E frame_index \in 0..2 : TargetFrame(1, frame_index, 0)

StripSpec == Init /\ [][StripNext]_vars

\* The queries: input counts, target frames and frame maps.
QueryNext ==
  \/ \E t \in SeqTypes : GetNumInputs(t)
  \/ \E st \in SpeedInputs, fromFile \in BOOLEAN : AddStrip(st, fromFile)
  \/ \E frame_index \in 0..2, input \in {0, 1} : TargetFrame(1, frame_index, input)
  \/ RebuildMap(1)

QuerySpec == Init /\ [][QueryNext]_vars


(***************************************************************************)
(* The life of a speed strip: the functions of its handle and the frame    *)
(* map functions, applied in any order to a strip and to its copy.  A      *)
(* function that reads through a pointer which is null or whose block was  *)
(* freed, or that frees a block a second time, does something the          *)
(* language leaves undefined: the step is recorded in ret and nothing is   *)
(* followed beyond it.                                                     *)
(***************************************************************************)
\* v->... is defined: v points to an allocated block.
Valid(w, p) == p # nullptr /\ w.mem[p].alloc

\* What is wrong with reading the fields of the block at p.
Invalid(w, p) == IF p = nullptr THEN "absent" ELSE "freed"

\* The pointers a call of fn on strip s reads through or frees.
speed_pointers(w, s, fn) ==
  LET sq == w.seq[s]
      v == sq.effectdata
      frameMap == IF Valid(w, v) THEN w.mem[v].data.frameMap ELSE nullptr
      returns == (~sq.seq1.present) \/ sq.len < 1 \/ ~sq.fcu.present
  IN  CASE fn = "init_speed_effect" -> IF v # nullptr THEN <<v>> ELSE <<>>
        [] fn \in {"load_speed_effect", "copy_speed_effect"} -> <<v>>
        [] fn = "free_speed_effect" ->
             IF frameMap # nullptr THEN <<v, frameMap>> ELSE <<v>>
        [] fn = "seq_effect_speed_rebuild_map" ->
             IF returns THEN <<>>
             ELSE IF frameMap # nullptr THEN <<v, frameMap>> ELSE <<v>>
        [] fn = "seq_effect_speed_frame_map_ensure" -> <<v>>

\* The world after fn ran on strip s (for the copy, from strip s to the new strip).
speed_call(w, s, fn) ==
  CASE fn = "init_speed_effect" -> sh_init(w, s)
    [] fn = "load_speed_effect" -> load_speed_effect(w, s)
    [] fn = "copy_speed_effect" ->
         sh_copy([w EXCEPT !.seq = Append(@, w.seq[s])], Len(w.seq) + 1, s, FALSE)
    [] fn = "free_speed_effect" -> sh_free(w, s, TRUE)
    [] fn = "seq_effect_speed_rebuild_map" -> seq_effect_speed_rebuild_map(w, s)
    [] fn = "seq_effect_speed_frame_map_ensure" -> seq_effect_speed_frame_map_ensure(w, s)

Faulted == ret.op = "fault"

\* fn is called on strip s.
SpeedCall(s, fn) ==
  /\ s \in DOMAIN seq
  /\ thread = <<>>
  /\ ~Faulted
  /\ LET w == World(TRUE, 0)
         ptrs == speed_pointers(w, s, fn)
         bad == {i \in DOMAIN ptrs : ~Valid(w, ptrs[i])}
     IN  IF bad # {}
         THEN /\ ret' = [ op |-> "fault", fn |-> fn, strip |-> s,
                          pointer |-> Invalid(w, ptrs[CHOOSE i \in bad : \A j \in bad : i <= j]) ]
              /\ UNCHANGED <<seq, mem, fonts, log>>
         ELSE /\ Commit(speed_call(w, s, fn))
              /\ ret' = [op |-> fn, strip |-> s]
  /\ UNCHANGED <<thread, pixelVars, execVars>>

\* A speed strip is added: its effect data is absent until init ran.
SpeedAdd(st) ==
  /\ seq = <<>>
  /\ LET sq == [ type |-> st.type, flag |-> FALSE, blend_mode |-> st.blend_mode,
                 seq1 |-> st.seq1, start |-> st.start, len |-> st.len, fcu |-> st.fcu,
                 effectdata |-> nullptr, freed |-> FALSE, marked |-> FALSE ]
     IN  Commit(sh_init([World(TRUE, 0) EXCEPT !.seq = <<sq>>], 1))
  /\ ret' = [op |-> "add", strip |-> 1]
  /\ UNCHANGED <<thread, pixelVars, execVars>>

SpeedInit(s) == Len(mem) < MaxHeap /\ SpeedCall(s, "init_speed_effect")

SpeedLoad(s) == s \in DOMAIN seq /\ SpeedCall(s, "load_speed_effect")

SpeedRebuild(s) == Len(mem) < MaxHeap /\ SpeedCall(s, "seq_effect_speed_rebuild_map")

SpeedEnsure(s) == Len(mem) < MaxHeap /\ SpeedCall(s, "seq_effect_speed_frame_map_ensure")

SpeedCopy == Len(seq) = 1 /\ Len(mem) < MaxHeap /\ SpeedCall(1, "copy_speed_effect")

SpeedFree(s) == s \in DOMAIN seq /\ SpeedCall(s, "free_speed_effect")

\* The strips whose blocks are followed: with and without a speed curve,
\* with and without a source strip.
SpeedLifeInputs ==
  { [ type |-> "SEQ_TYPE_SPEED", blend_mode |-> "0", seq1 |-> src, start |-> 4, len |-> 3,
      fcu |-> c ] :
      src \in {NoSource, [present |-> TRUE, len |-> 2, startofs |-> 0]},
      c \in {NoCurve, [present |-> TRUE, v |-> <<F(2), F(-1)>>]} }

SpeedLifeNext ==
  \/ \E st \in SpeedLifeInputs : SpeedAdd(st)
  \/ \E s \in {1, 2} : SpeedInit(s)
  \/ \E s \in {1, 2} : SpeedLoad(s)
  \/ \E s \in {1, 2} : SpeedRebuild(s)
  \/ \E s \in {1, 2} : SpeedEnsure(s)
  \/ SpeedCopy
  \/ \E s \in {1, 2} : SpeedFree(s)

SpeedLifeSpec == Init /\ [][SpeedLifeNext]_vars


(***************************************************************************)
(* Two threads call SEQ_effect_handle_get on strip 1 at the same time.     *)
(* The function takes no lock, so the test of the flag, the call of load   *)
(* and the clearing of the flag of one thread interleave with those of     *)
(* the other.  thread[t].pc is the statement thread t is at.               *)
(***************************************************************************)
ThreadStart(main) ==
  /\ Alive(1)
  /\ thread = <<>>
  /\ thread' = << [pc |-> "test", main |-> main], [pc |-> "test", main |-> FALSE] >>
  /\ ret' = [op |-> "threads"]
  /\ UNCHANGED <<seq, mem, fonts, log, pixelVars, execVars>>

\* if ((seq->flag & SEQ_EFFECT_NOT_LOADED) != 0)
ThreadTest(t) ==
  /\ thread # <<>>
  /\ thread[t].pc = "test"
  /\ thread' = [thread EXCEPT ![t].pc = IF seq[1].flag THEN "load" ELSE "done"]
  /\ UNCHANGED <<seq, mem, fonts, log, ret, pixelVars, execVars>>

\* rval.load(seq)
ThreadLoad(t) ==
  /\ thread # <<>>
  /\ thread[t].pc = "load"
  /\ Commit(sh_load(World(thread[t].main, t), 1, seq[1].type))
  /\ thread' = [thread EXCEPT ![t].pc = "clear"]
  /\ UNCHANGED <<ret, pixelVars, execVars>>

\* seq->flag &= ~SEQ_EFFECT_NOT_LOADED
ThreadClear(t) ==
  /\ thread # <<>>
  /\ thread[t].pc = "clear"
  /\ Commit([Wrote(World(thread[t].main, t), "flag") EXCEPT !.seq[1].flag = FALSE])
  /\ thread' = [thread EXCEPT ![t].pc = "done"]
  /\ UNCHANGED <<ret, pixelVars, execVars>>

ThreadNext ==
  \/ \E st \in StripInputs, fromFile \in BOOLEAN : AddStrip(st, fromFile)
  \/ \E main \in BOOLEAN : ThreadStart(main)
  \/ \E t \in {1, 2} : ThreadTest(t)
  \/ \E t \in {1, 2} : ThreadLoad(t)
  \/ \E t \in {1, 2} : ThreadClear(t)

ThreadSpec == Init /\ [][ThreadNext]_vars

(***************************************************************************)
(* Claims on the queries (QuerySpec).                                      *)
(***************************************************************************)
\* The strip the last call was made on.
RetStrip == seq[ret.strip]

\* C13: in every speed-control mode and for every parameter value, the
\* target frame seq_speed_effect_target_frame_get computes lies, before
\* the start of the speed strip is added, in [0, length of the source
\* strip], and it is what the returned value is made of; without a source
\* strip the call returns 0.
C13_TargetFrameClamped ==
  ret.op = "target_frame" =>
    IF ~RetStrip.seq1.present THEN ret.value = Zero
    ELSE /\ RLe(Zero, ret.target_frame)
         /\ RLe(ret.target_frame, F(RetStrip.seq1.len))
         /\ LET target_frame == RAdd(ret.target_frame, F(RetStrip.start))
            IN  ret.value = IF mem[RetStrip.effectdata].data.flags /\ ret.input # 0
                            THEN ceilf(target_frame)
                            ELSE target_frame

\* A call whose mode asks for a frame past the end of the source.
C13_Witness ==
  /\ ret.op = "target_frame"
  /\ RetStrip.seq1.present
  /\ RLt(F(RetStrip.seq1.len),
         speed_target_frame_switch(World(TRUE, 0), ret.strip, ret.frame_index))
  /\ ret.target_frame = F(RetStrip.seq1.len)

\* The frame map of strip s, or <<>> when the strip has none.
FrameMapOf(s) ==
  LET p == seq[s].effectdata
  IN  IF seq[s].type = "SEQ_TYPE_SPEED" /\ p # nullptr /\ mem[p].data.frameMap # nullptr
      THEN mem[mem[p].data.frameMap].data.v
      ELSE <<>>

\* C14: whatever the values of the factor curve, negative or above 1, a
\* frame map that seq_effect_speed_rebuild_map built has one entry per
\* frame of the strip, every entry lies in [0, length of the source
\* strip], and entry 0 is 0.
C14_FrameMapBounded ==
  \A s \in DOMAIN seq :
    LET v == FrameMapOf(s)
    IN  v # <<>> =>
          /\ Len(v) = seq[s].len
          /\ v[1] = Zero
          /\ \A i \in DOMAIN v : RLe(Zero, v[i]) /\ RLe(v[i], F(seq[s].seq1.len))

\* A rebuilt map of a curve that first runs past the end of the source and
\* then below 0.
C14_Witness ==
  /\ ret.op = "rebuild_map"
  /\ Len(FrameMapOf(1)) = 3
  /\ seq[1].fcu.v = <<F(2), F(-1)>>
  /\ seq[1].seq1.len = 2
  /\ FrameMapOf(1) = <<Zero, F(2), One>>

\* C15: SEQ_effect_get_num_inputs returns 0 for solid color, multicam,
\* adjustment and text, 1 for transform, glow, speed and gaussian blur, 2
\* for cross, gamma cross, add, sub, mul, the blend modes, color mix,
\* alpha over, alpha under, over drop and wipe, and 0 for a type that has
\* no execute function.
C15_NumInputs ==
  ret.op = "num_inputs" =>
    ret.value =
      CASE ret.type \in { "SEQ_TYPE_COLOR", "SEQ_TYPE_MULTICAM", "SEQ_TYPE_ADJUSTMENT",
                          "SEQ_TYPE_TEXT" } -> 0
        [] ret.type \in { "SEQ_TYPE_TRANSFORM", "SEQ_TYPE_GLOW", "SEQ_TYPE_SPEED",
                          "SEQ_TYPE_GAUSSIAN_BLUR" } -> 1
        [] ret.type \in BlendModeTypes
                        \cup { "SEQ_TYPE_CROSS", "SEQ_TYPE_GAMCROSS", "SEQ_TYPE_ADD",
                               "SEQ_TYPE_SUB", "SEQ_TYPE_MUL", "SEQ_TYPE_COLORMIX",
                               "SEQ_TYPE_ALPHAOVER", "SEQ_TYPE_ALPHAUNDER",
                               "SEQ_TYPE_OVERDROP", "SEQ_TYPE_WIPE" } -> 2
        [] OTHER -> 0

\* The count of a type that is no effect: its handle has no execute function.
C15_Witness ==
  /\ ret.op = "num_inputs"
  /\ ret.type = "SEQ_TYPE_MOVIE"
  /\ get_sequence_effect_impl(ret.type).execute = "nullptr"
  /\ get_sequence_effect_impl(ret.type).execute_slice = "nullptr"
  /\ ret.value = 0


(***************************************************************************)
(* Claims on the life of a strip (StripSpec).                              *)
(***************************************************************************)
\* How often the load function of the strip's own type was invoked on it.
OwnLoads(s) ==
  Cardinality({ i \in DOMAIN log.loads :
                  log.loads[i].strip = s /\ log.loads[i].of = seq[s].type })

\* C16: on an effect strip whose 'not loaded' flag was set once, over any
\* sequence of sequential SEQ_effect_handle_get and
\* seq_effect_get_sequence_blend calls, the load function of the strip's
\* own type is invoked exactly once, by the first call that returns a
\* non-empty handle, and the flag is clear after that call and stays
\* clear; without the flag load is never invoked.
C16_LoadedOnce ==
  /\ \A s \in DOMAIN seq :
       /\ seq[s].flag => seq[s].marked /\ OwnLoads(s) = 0
       /\ ~seq[s].flag => OwnLoads(s) = IF seq[s].marked THEN 1 ELSE 0
  /\ ret.op \in {"handle_get", "blend_get"} =>
       /\ ~ret.empty => ~RetStrip.flag
       /\ ret.empty => RetStrip.flag = ret.was

\* A text strip read from a file got its blend handle: load_text_effect
\* ran once, then the load of the blend mode's handle, then the flag fell.
C16_Witness ==
  /\ ret.op = "blend_get"
  /\ ret.was
  /\ ~ret.empty
  /\ RetStrip.type = "SEQ_TYPE_TEXT"
  /\ OwnLoads(ret.strip) = 1
  /\ Len(log.loads) = 2
  /\ log.loads[1].fn = "load_text_effect"
  /\ ~RetStrip.flag

\* The frame map pointer of strip s, nullptr when it has none.
FrameMapPtr(s) ==
  IF seq[s].type = "SEQ_TYPE_SPEED" /\ seq[s].effectdata # nullptr
  THEN mem[seq[s].effectdata].data.frameMap
  ELSE nullptr

\* C18: for every type with a copy function, once a strip was copied and
\* one of the two strips is freed, the effect data of the other and every
\* block it points to are allocated and as they were before the free; the
\* copy of a speed strip starts without a frame map and never points to
\* the frame map of the strip it was copied from.
C18_CopySurvivesFree ==
  /\ (ret.op = "free" /\ ret.other # <<>>) =>
       LET now == Reachable(World(TRUE, 0), 3 - ret.strip)
       IN  /\ now = ret.other[1]
           /\ now.effectdata.alloc
           /\ now.frameMap.alloc
           /\ now.font
  /\ ret.op = "copy" => FrameMapPtr(2) = nullptr
  /\ Len(seq) = 2 => FrameMapPtr(1) = nullptr \/ FrameMapPtr(1) # FrameMapPtr(2)

\* A speed strip with a frame map was copied and then freed: its frame map
\* is gone, the copy is alive.
C18_Witness ==
  /\ ret.op = "free"
  /\ ret.strip = 1
  /\ ret.other # <<>>
  /\ seq[1].type = "SEQ_TYPE_SPEED"
  /\ \E a \in DOMAIN mem : mem[a].shape = "float[]" /\ ~mem[a].alloc
  /\ Alive(2)
  /\ mem[seq[2].effectdata].alloc

\* C19: the record the init function of a type allocates is of the record
\* type that the functions of the type cast seq->effectdata to: every
\* cast made so far read a block through the type it was allocated with.
C19_ShapeKept == \A c \in log.casts : c.as = c.shape

\* C20: a call of execute or execute_slice leaves the effect data record
\* of the strip, with its font handle and its frame map pointer, and the
\* 'not loaded' flag of the strip as it found them.
C20_ExecuteReadOnly ==
  ret.op = "execute" =>
    /\ mem[RetStrip.effectdata].data = ret.effectdata
    /\ RetStrip.flag = ret.flag


(***************************************************************************)
(* Claims on concurrent handle fetches (ThreadSpec).                       *)
(***************************************************************************)
\* C17: when two threads call SEQ_effect_handle_get on the same strip
\* whose 'not loaded' flag is set, under every interleaving the load
\* function of the strip runs once in total and no field of the strip or
\* of its effect data is written by both threads.
C17_ConcurrentGet ==
  /\ Cardinality({ i \in DOMAIN log.loads : log.loads[i].strip = 1 }) <= 1
  /\ \A f \in {"flag", "frameMap", "text_blf_id"} :
       ~(<<1, f>> \in log.writers /\ <<2, f>> \in log.writers)


\* The last call was a target-frame query in multiply mode with a factor
\* curve on a strip with a source: it read the frame map.
ReadFrameMap ==
  /\ ret.op = "target_frame"
  /\ RetStrip.seq1.present
  /\ RetStrip.fcu.present
  /\ mem[RetStrip.effectdata].data.speed_control_type = "SEQ_SPEED_MULTIPLY"

GlowComposited ==
  /\ inv.phase = "done"
  /\ inv.type = "SEQ_TYPE_GLOW"
  /\ "glow" \in DOMAIN inv.data
  /\ inv.data.glow.bNoComp = 0

\* glow_blur_bitmap returned before its passes.
GlowBlurSkipped == RLe(inv.data.blur, Zero) \/ inv.data.halfWidth = 0

\* The highlight layer after the blur: the columns of the rows of the
\* isolated highlights, or the isolated highlights when the blur is a no-op.
GlowBlurredLayer ==
  IF GlowBlurSkipped THEN inv.start1
  ELSE LET temp == [ p \in PixelIndex |->
                       glow_blur_row(inv.start1, Width, inv.data.halfWidth,
                                     p % Width, p \div Width) ]
       IN  [ p \in PixelIndex |->
               glow_blur_column(<<>>, temp, Width, Height, inv.data.halfWidth,
                                p % Width, p \div Width) ]

\* C27: unless the no-composite option is set, every output pixel of glow
\* is the input pixel plus the blurred highlight layer, clamped to 1 per
\* channel, also when blur <= 0 or the half width is 0 and the blur does
\* nothing.
C27_GlowAddsOriginal ==
  GlowComposited =>
    \A p \in PixelIndex :
      out[p] = [c \in 1..4 |-> RMin(One, RAdd(ibuf2[p][c], GlowBlurredLayer[p][c]))]

(***************************************************************************)
(* Overdrop as a whole, checked under Spec.                                *)
(***************************************************************************)
OverdropDone == inv.phase = "done" /\ inv.type = "SEQ_TYPE_OVERDROP"

\* C29: for every pair of inputs, every fac and every slicing, the final
\* output of overdrop is at every pixel the output of alpha-over on the
\* same inputs and fac: each pixel was written by the drop call and then
\* overwritten by the alpha-over call, whose value does not depend on what
\* the output held.
C29_OverdropIsAlphaOver ==
  OverdropDone =>
    \A p \in PixelIndex :
      /\ Len(writes[p]) = 2
      /\ out[p] = IF inv.isFloat
                  THEN do_alphaover_effect_float(inv.fac, inv.start1[p], inv.start2[p])
                  ELSE do_alphaover_effect_byte(inv.fac, inv.start1[p], inv.start2[p])

\* A run in which the drop call left values the alpha-over call replaced.
C29_Witness ==
  /\ OverdropDone
  /\ ~inv.isFloat
  /\ inv.fac = Half
  /\ Cardinality(DOMAIN task) = 2
  /\ \E p \in PixelIndex :
       out[p] # do_drop_effect_byte(inv.fac, Width, Height, inv.start1, inv.start2, p)

(***************************************************************************)
(* Multicam and adjustment: effects without inputs, which ask the channel  *)
(* renderer (seq_render_give_ibuf_seqbase) for the frame of a channel.     *)
(* A call is the strip with the chain of group strips around it, chain[1]  *)
(* the strip itself, chain[k + 1] the group strip that holds chain[k].     *)
(* The list of strips that holds chain[k] is named k.  A request records   *)
(* what the channel renderer was asked, an answer what it returned:        *)
(* nullptr, or the frame it rendered for that request (its number).        *)
(***************************************************************************)
clamp_i(value, min, max) == min_ii(max_ii(value, min), max)

ChannelRequest(timeline_frame, chanshown, seqbasep) ==
  [timeline_frame |-> timeline_frame, chanshown |-> chanshown, seqbasep |-> seqbasep]

\* Variant of do_multicam that also accepts the strip's own channel.
do_multicam_own(c, answer) ==
  IF c.multicam_source = 0 \/ c.multicam_source > c.machine
  THEN [requests |-> <<>>, out |-> nullptr]
  ELSE IF ~c.ed THEN [requests |-> <<>>, out |-> nullptr]
  ELSE IF c.seqbasep = nullptr THEN [requests |-> <<>>, out |-> nullptr]
  ELSE [requests |-> <<ChannelRequest(c.timeline_frame, c.multicam_source, c.seqbasep)>>,
        out |-> answer]

\* do_multicam on strip c, the channel renderer returning answer if asked.
do_multicam(c, answer) ==
  IF c.multicam_source = 0 \/ c.multicam_source >= c.machine
  THEN [requests |-> <<>>, out |-> nullptr]
  ELSE IF ~c.ed THEN [requests |-> <<>>, out |-> nullptr]
  ELSE IF c.seqbasep = nullptr THEN [requests |-> <<>>, out |-> nullptr]
  ELSE [requests |-> <<ChannelRequest(c.timeline_frame, c.multicam_source, c.seqbasep)>>,
        out |-> answer]

\* Variant of do_adjustment_impl that passes its frame on as it came.
do_adjustment_impl_unclamped(chain, level, timeline_frame, answer) ==
  LET strip == chain[level]
      asked == strip.machine > 1
      i == IF asked THEN answer ELSE nullptr
  IN  [ timeline_frame |-> timeline_frame,
        requests |-> IF asked
                     THEN <<ChannelRequest(timeline_frame, strip.machine - 1, level)>>
                     ELSE <<>>,
        i |-> i,
        meta |-> IF i = nullptr /\ level < Len(chain) THEN level + 1 ELSE nullptr ]

\* One activation of do_adjustment_impl, on the strip chain[level]: the
\* clamped frame, the request made (if any), the frame found, and the group
\* strip the function recurses on (nullptr: it returns i).
do_adjustment_impl(chain, level, timeline_frame, answer) ==
  LET strip == chain[level]
      clamped == clamp_i(timeline_frame, strip.left, strip.right - 1)
      asked == strip.machine > 1
      i == IF asked THEN answer ELSE nullptr
  IN  [ timeline_frame |-> clamped,
        requests |-> IF asked
                     THEN <<ChannelRequest(clamped, strip.machine - 1, level)>>
                     ELSE <<>>,
        i |-> i,
        meta |-> IF i = nullptr /\ level < Len(chain) THEN level + 1 ELSE nullptr ]

\* The deepest nesting of group strips around an adjustment strip.
MaxNesting == 2

TimelineFrames == {F(-1), F(0), F(1), Rat(5, 2), F(4)}

MulticamCalls ==
  [ type : {"SEQ_TYPE_MULTICAM"}, multicam_source : 0..3, machine : 1..3,
    ed : BOOLEAN, seqbasep : {nullptr, 1}, timeline_frame : TimelineFrames ]

\* A strip of a chain: its channel and its handles (left < right).
ChainStrips ==
  { [machine |-> m, left |-> l, right |-> l + n] : m \in 1..2, l \in 0..1, n \in 1..2 }

AdjustmentCalls ==
  [ type : {"SEQ_TYPE_ADJUSTMENT"}, ed : BOOLEAN, timeline_frame : TimelineFrames,
    chain : UNION { [1..n -> ChainStrips] : n \in 1..(MaxNesting + 1) } ]

\* sh.execute of a multicam strip.
Multicam(c) ==
  /\ call = NoCall
  /\ call' = c
  /\ \E answer \in {nullptr, 1} :
       LET r == do_multicam(c, answer)
       IN  ret' = [ op |-> "do_multicam", requests |-> r.requests,
                    answers |-> IF r.requests = <<>> THEN <<>> ELSE <<answer>>,
                    out |-> r.out, done |-> TRUE ]
  /\ UNCHANGED <<result, seq, mem, fonts, thread, log, execVars>>

\* sh.execute of an adjustment strip: do_adjustment up to its call of
\* do_adjustment_impl on the strip.
Adjustment(c) ==
  /\ call = NoCall
  /\ call' = c
  /\ ret' = [ op |-> "do_adjustment", requests |-> <<>>, answers |-> <<>>,
              level |-> IF c.ed THEN 1 ELSE nullptr,
              timeline_frame |-> FloatToInt(c.timeline_frame),
              out |-> nullptr, done |-> ~c.ed ]
  /\ UNCHANGED <<result, seq, mem, fonts, thread, log, execVars>>

\* One activation of do_adjustment_impl; the last one returns through all
\* the callers to do_adjustment.
AdjustmentStep ==
  /\ call # NoCall
  /\ call.type = "SEQ_TYPE_ADJUSTMENT"
  /\ ~ret.done
  /\ \E answer \in {nullptr, Len(ret.requests) + 1} :
       LET r == do_adjustment_impl(call.chain, ret.level, ret.timeline_frame, answer)
       IN  ret' = [ ret EXCEPT
                      !.requests = @ \o r.requests,
                      !.answers = IF r.requests = <<>> THEN @ ELSE Append(@, answer),
                      !.timeline_frame = r.timeline_frame,
                      !.level = IF r.meta = nullptr THEN @ ELSE r.meta,
                      !.out = r.i,
                      !.done = (r.meta = nullptr) ]
  /\ UNCHANGED <<call, result, seq, mem, fonts, thread, log, execVars>>

ChannelNext ==
  \/ \E c \in MulticamCalls : Multicam(c)
  \/ \E c \in AdjustmentCalls : Adjustment(c)
  \/ AdjustmentStep

ChannelSpec == Init /\ [][ChannelNext]_vars

(***************************************************************************)
(* Properties of multicam and adjustment, checked under ChannelSpec.       *)
(***************************************************************************)
\* C24: multicam returns an empty result without asking the channel
\* renderer when its source channel is 0 or not below its own channel, or
\* the scene has no editing data or no strip list; otherwise it asks for
\* exactly its source channel, which is below its own, and returns what
\* the channel renderer returned, an empty result included.
C24_Multicam ==
  (call # NoCall /\ call.type = "SEQ_TYPE_MULTICAM") =>
    IF \/ call.multicam_source = 0
       \/ call.multicam_source >= call.machine
       \/ ~call.ed
       \/ call.seqbasep = nullptr
    THEN ret.requests = <<>> /\ ret.out = nullptr
    ELSE /\ Len(ret.requests) = 1
         /\ ret.requests[1].chanshown = call.multicam_source
         /\ ret.requests[1].chanshown < call.machine
         /\ ret.requests[1].timeline_frame = call.timeline_frame
         /\ ret.out = ret.answers[1]

C24_Witness ==
  /\ call # NoCall
  /\ call.type = "SEQ_TYPE_MULTICAM"
  /\ call.multicam_source = 2
  /\ call.machine = 3
  /\ Len(ret.requests) = 1
  /\ ret.answers = <<nullptr>>
  /\ ret.out = nullptr

\* The frame do_adjustment_impl works with on chain[level], after its clamp.
RECURSIVE AdjustmentFrame(_)
AdjustmentFrame(level) ==
  IF level = 0 THEN FloatToInt(call.timeline_frame)
  ELSE clamp_i(AdjustmentFrame(level - 1),
               call.chain[level].left, call.chain[level].right - 1)

\* The levels do_adjustment_impl has been through: all up to the current one
\* once the call is done, the ones below the current one before.
AdjustmentVisited ==
  IF ret.level = nullptr THEN {}
  ELSE { k \in 1..Len(call.chain) : k < ret.level \/ (k = ret.level /\ ret.done) }

\* C25: adjustment asks, level by level from the strip outwards, for the
\* channel directly below the strip of the level (only if that strip is
\* above channel 1), at a frame clamped to [left handle, right handle - 1]
\* of that strip; it goes on to the enclosing group strip only when a level
\* yielded nothing, returns the first frame found, and returns an empty
\* result once the outermost level yielded nothing.  The search terminates:
\* the level only rises, never beyond the nesting, and an unfinished call
\* always has its next step.
C25_Adjustment ==
  (call # NoCall /\ call.type = "SEQ_TYPE_ADJUSTMENT") =>
    LET asked == { k \in AdjustmentVisited : call.chain[k].machine > 1 }
        n == Len(ret.requests)
    IN  /\ ~call.ed => ret.done /\ ret.requests = <<>> /\ ret.out = nullptr
        /\ n = Cardinality(asked)
        /\ Len(ret.answers) = n
        /\ \A j \in 1..n :
             LET r == ret.requests[j]
                 k == r.seqbasep
             IN  /\ k \in asked
                 /\ \A j2 \in 1..(j - 1) : ret.requests[j2].seqbasep < k
                 /\ r.chanshown = call.chain[k].machine - 1
                 /\ r.timeline_frame = AdjustmentFrame(k)
                 /\ r.timeline_frame >= call.chain[k].left
                 /\ r.timeline_frame <= call.chain[k].right - 1
                 /\ j < n => ret.answers[j] = nullptr
        /\ ~ret.done =>
             /\ ret.level \in 1..Len(call.chain)
             /\ \A j \in 1..n : ret.answers[j] = nullptr
             /\ ENABLED AdjustmentStep
        /\ (ret.done /\ call.ed) =>
             /\ ret.out = IF n = 0 THEN nullptr ELSE ret.answers[n]
             /\ ret.out = nullptr => ret.level = Len(call.chain)

\* The strip yields nothing, its group strip yields the frame returned.
C25_Witness ==
  /\ call # NoCall
  /\ call.type = "SEQ_TYPE_ADJUSTMENT"
  /\ Len(call.chain) = 3
  /\ ret.done
  /\ Len(ret.requests) = 2
  /\ ret.answers = <<nullptr, 2>>
  /\ ret.out = 2
  /\ ret.level = 2
  /\ call.timeline_frame = F(4)
  /\ ret.requests[1].timeline_frame = 1
  /\ ret.requests[2].timeline_frame = 1

(***************************************************************************)
(* Further properties of the pixel functions, checked under PixelSpec.     *)
(***************************************************************************)
\* What a strip renders at one pixel when it is invoked through its handle:
\* the early-out classification first, the effect function only on
\* EARLY_DO_EFFECT.
handle_outcomes(c) ==
  LET e == early_out(c.type, c.fac)
  IN  CASE e = "EARLY_USE_INPUT_1" -> {c.in1}
        [] e = "EARLY_USE_INPUT_2" -> {c.in2}
        [] OTHER -> ExecutePixel(c)

\* C21: a color-mix strip invoked through its handle (early-out, then
\* execute_slice) renders the same outcome for every external fac: the
\* outcome depends only on the stored (blend_effect, factor) and the inputs.
C21_ColorMixIgnoresFac ==
  (Applied /\ call.type = "SEQ_TYPE_COLORMIX") =>
    \A fac \in Facs :
      handle_outcomes([call EXCEPT !.fac = fac]) = handle_outcomes(call)


\* The premultiplied inputs of a byte call, as the byte paths decode them.
PremulIn1 == straight_uchar_to_premul_float(call.in1)

PremulIn2 == straight_uchar_to_premul_float(call.in2)

\* The byte alpha-over (alpha-under) call took its blend branch.
AlphaOverBlends ==
  /\ IsCall("SEQ_TYPE_ALPHAOVER", FALSE)
  /\ ~RLe(call.fac, Zero)
  /\ ~RLe(AlphaOverMfac, Zero)

AlphaUnderBlends ==
  /\ IsCall("SEQ_TYPE_ALPHAUNDER", FALSE)
  /\ alphaunder_case_byte(call.fac, PremulIn2[4]) = "blend"

\* tempc as the blend branch hands it to premul_float_to_straight_uchar.
AlphaOverTempc == alphaover_tempc(call.fac, AlphaOverMfac, PremulIn1, PremulIn2)

AlphaUnderTempc == alphaunder_tempc(call.fac, PremulIn1, PremulIn2)

\* C22 as stated: in the byte paths of alpha-over and alpha-under, whenever
\* the blend branch is reached the blended alpha handed to the re-encoding
\* is strictly greater than 0.
C22_BlendAlphaPositive ==
  /\ AlphaOverBlends => RLt(Zero, AlphaOverTempc[4])
  /\ AlphaUnderBlends => RLt(Zero, AlphaUnderTempc[4])

\* C22 amended: whenever the blend branch of the byte alpha-over or
\* alpha-under is reached, the output is the re-encoding of tempc, whose
\* alpha is never negative and is 0 exactly when both input pixels have
\* alpha 0.
C22_BlendAlphaZeroOnlyIfBothClear ==
  /\ AlphaOverBlends =>
       /\ result = premul_float_to_straight_uchar(AlphaOverTempc)
       /\ RLe(Zero, AlphaOverTempc[4])
       /\ AlphaOverTempc[4] = Zero <=> (call.in1[4] = 0 /\ call.in2[4] = 0)
  /\ AlphaUnderBlends =>
       /\ result = premul_float_to_straight_uchar(AlphaUnderTempc)
       /\ RLe(Zero, AlphaUnderTempc[4])
       /\ AlphaUnderTempc[4] = Zero <=> (call.in1[4] = 0 /\ call.in2[4] = 0)

C22_Witness ==
  /\ AlphaUnderBlends
  /\ call.fac = Half
  /\ call.in1 = <<10, 20, 30, 0>>
  /\ call.in2 = <<255, 85, 51, 85>>
  /\ RLt(Zero, AlphaUnderTempc[4])


\* The channel values the byte path of the call computed, before the store
\* into the 8-bit output.
ByteValues ==
  CASE call.type = "SEQ_TYPE_CROSS" -> do_cross_effect_byte_int(call.fac, call.in1, call.in2)
    [] call.type = "SEQ_TYPE_ADD" -> do_add_effect_byte_int(call.fac, call.in1, call.in2)
    [] call.type = "SEQ_TYPE_SUB" -> do_sub_effect_byte_int(call.fac, call.in1, call.in2)
    [] call.type = "SEQ_TYPE_MUL" -> do_mul_effect_byte_int(call.fac, call.in1, call.in2)

\* C23: for every fac, also outside [0,1], every channel value the byte
\* paths of cross, add, subtract and multiply compute lies within [0,255]
\* before it is stored (the stored byte is the value itself, not the value
\* modulo 256).
C23_ByteValuesInRange ==
  (/\ Applied
   /\ ~call.isFloat
   /\ call.type \in {"SEQ_TYPE_CROSS", "SEQ_TYPE_ADD", "SEQ_TYPE_SUB", "SEQ_TYPE_MUL"}) =>
    \A i \in 1..4 : ByteValues[i] \in 0..255 /\ result[i] = ByteValues[i]


\* The alpha of the second input of a call, as alpha-under reads it.
AlphaUnderAlpha2 == IF call.isFloat THEN call.in2[4] ELSE PremulIn2[4]

\* C28: for every fac, below 0 and above 1 included, and every alpha of
\* the second input, the byte path and the float path of alpha-under take
\* the same case: the first input verbatim when the second alpha is <= 0
\* and fac >= 1, the second input verbatim when the second alpha is >= 1
\* or fac is 0, the blend otherwise.
C28_AlphaUnderSameCase ==
  (Applied /\ call.type = "SEQ_TYPE_ALPHAUNDER") =>
    LET stated == IF RLe(AlphaUnderAlpha2, Zero) /\ RLe(One, call.fac) THEN "input1"
                  ELSE IF RLe(One, AlphaUnderAlpha2) \/ call.fac = Zero THEN "input2"
                  ELSE "blend"
    IN  /\ alphaunder_case_byte(call.fac, AlphaUnderAlpha2) = stated
        /\ alphaunder_case_float(call.fac, AlphaUnderAlpha2) = stated


(***************************************************************************)
(* The blocks of speed strips, checked under SpeedLifeSpec.                *)
(***************************************************************************)
\* Block b is the effect data of a strip or the frame map of one.
Owned(b) ==
  \E s \in DOMAIN seq :
    LET v == seq[s].effectdata
    IN  \/ v = b
        \/ v # nullptr /\ mem[v].shape = "SpeedControlVars" /\ mem[v].data.frameMap = b

\* An allocated block no strip leads to.
Leaked == {b \in DOMAIN mem : mem[b].alloc /\ ~Owned(b)}

\* C30: over any sequence of init, load, frame map rebuild and ensure, copy
\* and free on speed strips, no block is freed twice, none is read through
\* a pointer that is null or whose block was freed, and none stays
\* allocated with no strip leading to it.
C30_SpeedBlocksFreedOnce == ~Faulted /\ Leaked = {}

====
